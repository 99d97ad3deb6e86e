--------------------------- MODULE KeyboardProofs ---------------------------
(***************************************************************************)
(* Proofs about Keyboard, for every table, every set of keys and with or   *)
(* without loss.  Inv is the inductive invariant: in step with the         *)
(* keyboard, the bytes collected are those of the event being sent; out of *)
(* step, the depth grows with every quiet event until it falls back to 0.  *)
(***************************************************************************)
EXTENDS Keyboard, SequenceTheorems, TLAPS

\* The handler has collected the bytes sent of an event that is not complete.
InStep ==
  IF 0 < pos /\ pos < Len(event)
    THEN scancode_depth = pos /\ \A i \in 1 .. pos : scancode_history[i] = event[i]
    ELSE scancode_depth = 0

Inv ==
  /\ KbTypeOK
  /\ ~lost => InStep /\ quiet = 0
  /\ lost => scancode_depth = 0 \/ scancode_depth > quiet
  /\ Pending => quiet < 5
  /\ KeysExact

\* The bytes of an event are bytes.
LEMMA EventBytes ==
  ASSUME NEW e \in Events
  PROVE  e \in Seq(Scancode) /\ Len(e) \in 1 .. 6
<1>1. CASE \E m \in Plain : e = <<m>>
  BY <1>1, KeyboardAssumption DEF Scancode
<1>2. CASE \E m \in Extended : e = <<E0, m>>
  BY <1>2, KeyboardAssumption DEF E0, Scancode
<1>3. CASE e = PrintScreen
  BY <1>3 DEF PrintScreen, E0, SHIFT_MAKE, Scancode
<1>4. CASE e = PrintScreenRelease
  BY <1>4 DEF PrintScreenRelease, E0, PRINT_BREAK, Scancode
<1>5. CASE e = Pause
  BY <1>5 DEF Pause, E1, Scancode
<1> QED
  BY <1>1, <1>2, <1>3, <1>4, <1>5 DEF Events

LEMMA InitInv == KbInit => Inv
<1> SUFFICES ASSUME KbInit PROVE Inv
  OBVIOUS
<1>1. Len(event) = 0 /\ scancode_depth = 0 /\ scancode_history \in Seq(Scancode)
  BY DEF KbInit, scancode_depth
<1>2. pos = 0 /\ event \in Events \cup {<<>>} /\ lost = FALSE /\ quiet = 0
  BY DEF KbInit
<1>3. KbTypeOK
  <2>1. scancode_depth <= 5 /\ pos \in 0 .. Len(event) /\ quiet \in 0 .. 5
    BY <1>1, <1>2
  <2> QED
    BY <1>1, <1>2, <2>1, Zenon DEF KbTypeOK
<1>4. InStep /\ KeysExact
  BY <1>1, <1>2 DEF InStep, KeysExact
<1> QED
  BY <1>1, <1>2, <1>3, <1>4 DEF Inv, Pending

LEMMA SendInv ==
  ASSUME Inv, NEW e \in Events, Send(e)
  PROVE  Inv'
BY EventBytes DEF Inv, KbTypeOK, InStep, KeysExact, scancode_depth, Send, Pending

LEMMA LoseInv ==
  ASSUME Inv, Lose
  PROVE  Inv'
BY EventBytes DEF Inv, KbTypeOK, InStep, KeysExact, scancode_depth, Lose, Pending

\* A byte handled in step: it is collected unless it is the last of its event, and
\* then its key code is the meaning of the event.
LEMMA InStepByte ==
  ASSUME Inv, ~lost, Pending
  PROVE  LET sc == event[pos + 1]
         IN  /\ pos + 1 < Len(event) <=> Collects(sc)
             /\ pos + 1 = Len(event) => KeyCode(sc) = Meaning(event)
<1> DEFINE sc == event[pos + 1]
<1>1. event \in Events /\ pos \in 0 .. Len(event) - 1 /\ scancode_history \in Seq(Scancode)
  BY DEF Inv, KbTypeOK, Pending
<1>2. scancode_depth = pos /\ \A i \in 1 .. pos : scancode_history[i] = event[i]
  BY <1>1, EventBytes DEF Inv, InStep, Pending
<1>3. CASE \E m \in Plain : event = <<m>>
  BY <1>1, <1>2, <1>3, KeyboardAssumption
     DEF Collects, KeyCode, Meaning, ExtendedKey, TableKey, PrintScreen, PrintScreenRelease, Pause, E0, E1, Scancode
<1>4. CASE \E m \in Extended : event = <<E0, m>>
  BY <1>1, <1>2, <1>4, KeyboardAssumption
     DEF Collects, KeyCode, Meaning, ExtendedKey, TableKey, PrintScreen, PrintScreenRelease, Pause, E0, E1,
         Scancode, SHIFT_MAKE, PRINT_BREAK
<1>5. CASE event = PrintScreen
  BY <1>1, <1>2, <1>5
     DEF Collects, PrintKey, KeyCode, Meaning, ExtendedKey, TableKey, PrintScreen, PrintScreenRelease, Pause, E0, E1,
         SHIFT_MAKE, PRINT_BREAK
<1>6. CASE event = PrintScreenRelease
  BY <1>1, <1>2, <1>6
     DEF Collects, PrintKey, KeyCode, Meaning, ExtendedKey, TableKey, PrintScreen, PrintScreenRelease, Pause, E0, E1,
         SHIFT_MAKE, PRINT_BREAK
<1>7. CASE event = Pause
  BY <1>1, <1>2, <1>7
     DEF Collects, PrintKey, KeyCode, Meaning, ExtendedKey, TableKey, PrintScreen, PrintScreenRelease, Pause, E0, E1,
         SHIFT_MAKE, PRINT_BREAK
<1> QED
  BY <1>1, <1>3, <1>4, <1>5, <1>6, <1>7 DEF Events

LEMMA DepthType ==
  ASSUME Inv
  PROVE  scancode_depth \in 0 .. 5
<1>1. scancode_history \in Seq(Scancode) /\ scancode_depth <= 5
  BY DEF Inv, KbTypeOK
<1>2. scancode_depth \in Nat
  BY <1>1, LenProperties DEF scancode_depth
<1> QED
  BY <1>1, <1>2

LEMMA ReceiveInv ==
  ASSUME Inv, Receive
  PROVE  Inv'
<1> DEFINE sc == event[pos + 1]
<1>1. /\ event \in Events /\ event \in Seq(Scancode) /\ Len(event) \in 1 .. 6
      /\ pos \in 0 .. Len(event) - 1 /\ sc \in Scancode
  <2>1. event \in Events \cup {<<>>} /\ pos \in 0 .. Len(event) /\ pos < Len(event)
    BY DEF Inv, KbTypeOK, Receive, Pending
  <2>2. event # <<>>
    BY <2>1
  <2>3. event \in Events
    BY <2>1, <2>2
  <2>4. event \in Seq(Scancode) /\ Len(event) \in 1 .. 6
    BY <2>3, EventBytes
  <2>5. pos + 1 \in 1 .. Len(event)
    BY <2>1, <2>4
  <2>6. sc \in Scancode
    BY <2>4, <2>5
  <2> QED
    BY <2>1, <2>3, <2>4, <2>5, <2>6
<1>2. scancode_history \in Seq(Scancode) /\ scancode_depth \in 0 .. 5 /\ quiet \in 0 .. 5
  BY DepthType DEF Inv, KbTypeOK
<1>3. \/ /\ Collects(sc) /\ key' = "none"
         /\ scancode_history' = Append(scancode_history, sc)
      \/ /\ ~Collects(sc) /\ key' = KeyCode(sc)
         /\ scancode_history' = <<>>
  BY DEF Receive, kb_handler
<1>4. scancode_depth = 5 => ~Collects(sc)
  BY DEF Collects
<1>5. /\ scancode_history' \in Seq(Scancode)
      /\ scancode_depth' = IF Collects(sc) THEN scancode_depth + 1 ELSE 0
      /\ \A i \in 1 .. scancode_depth : Collects(sc) => scancode_history'[i] = scancode_history[i]
      /\ Collects(sc) => scancode_history'[scancode_depth + 1] = sc
  <2>1. CASE Collects(sc)
    <3>1. scancode_history' = Append(scancode_history, sc)
      BY <1>3, <2>1
    <3>2. /\ scancode_history' \in Seq(Scancode)
          /\ Len(scancode_history') = Len(scancode_history) + 1
          /\ \A i \in 1 .. Len(scancode_history) : scancode_history'[i] = scancode_history[i]
          /\ scancode_history'[Len(scancode_history) + 1] = sc
      BY <1>1, <1>2, <3>1, AppendProperties
    <3> QED
      BY <2>1, <3>2 DEF scancode_depth
  <2>2. CASE ~Collects(sc)
    BY <1>3, <2>2, EmptySeq DEF scancode_depth
  <2> QED
    BY <2>1, <2>2
<1>6. pos' = pos + 1 /\ event' = event /\ lost' = lost
      /\ quiet' = IF lost /\ Len(event) = 1 THEN quiet + 1 ELSE 0
  BY DEF Receive
<1>7. quiet < 5
  BY DEF Inv, Receive
<1>8. Pending' => quiet' < 5
  BY <1>1, <1>2, <1>6, <1>7 DEF Pending
<1>9. KbTypeOK'
  <2>1. scancode_depth' <= 5
    BY <1>2, <1>4, <1>5
  <2>2. pos' \in 0 .. Len(event')
    BY <1>1, <1>6
  <2>3. quiet' \in 0 .. 5
    BY <1>2, <1>6, <1>7
  <2>4. lost' \in BOOLEAN
    BY <1>6, Zenon DEF Inv, KbTypeOK
  <2>5. event' \in Events \cup {<<>>}
    BY <1>1, <1>6, Zenon
  <2> QED
    BY <1>5, <2>1, <2>2, <2>3, <2>4, <2>5, Zenon DEF KbTypeOK
<1>10. CASE lost
  <2>1. scancode_depth = 0 \/ scancode_depth > quiet
    BY <1>10, Zenon DEF Inv
  <2>2. scancode_depth = 0 /\ Len(event) = 1 => ~Collects(sc)
    <3> SUFFICES ASSUME scancode_depth = 0, Len(event) = 1 PROVE ~Collects(sc)
      OBVIOUS
    <3>1. \E m \in Plain : event = <<m>>
      <4>1. \A m \in Extended : Len(<<E0, m>>) = 2
        OBVIOUS
      <4>2. Len(PrintScreen) = 4 /\ Len(PrintScreenRelease) = 4 /\ Len(Pause) = 6
        BY DEF PrintScreen, PrintScreenRelease, Pause
      <4>3. \/ \E m \in Plain : event = <<m>>
            \/ \E m \in Extended : event = <<E0, m>>
            \/ event = PrintScreen \/ event = PrintScreenRelease \/ event = Pause
        BY <1>1, Zenon DEF Events
      <4> QED
        BY <4>1, <4>2, <4>3
    <3>2. sc \in Plain
      BY <1>1, <3>1
    <3> QED
      BY <3>2, KeyboardAssumption DEF Collects
  <2>3. scancode_depth' = 0 \/ scancode_depth' > quiet'
    <3>1. CASE Len(event) = 1
      <4>1. quiet' = quiet + 1
        BY <1>6, <1>10, <3>1
      <4> QED
        BY <1>2, <1>5, <2>1, <2>2, <3>1, <4>1
    <3>2. CASE Len(event) # 1
      <4>1. quiet' = 0
        BY <1>6, <3>2
      <4> QED
        BY <1>2, <1>5, <4>1
    <3> QED
      BY <3>1, <3>2
  <2>4. lost' /\ KeysExact'
    BY <1>6, <1>10, Zenon DEF KeysExact
  <2> QED
    BY <1>8, <1>9, <2>3, <2>4, Zenon DEF Inv
<1>11. CASE ~lost
  <2>1. /\ pos + 1 < Len(event) <=> Collects(sc)
        /\ pos + 1 = Len(event) => KeyCode(sc) = Meaning(event)
    BY <1>11, InStepByte DEF Receive
  <2>2. quiet' = 0 /\ ~lost'
    BY <1>6, <1>11
  <2>3. InStep'
    <3>1. CASE Collects(sc)
      <4>1. scancode_depth = pos /\ \A i \in 1 .. pos : scancode_history[i] = event[i]
        <5>1. InStep
          BY <1>11, Zenon DEF Inv
        <5> QED
          BY <1>1, <5>1 DEF InStep
      <4>2. scancode_depth' = pos'
        BY <1>5, <1>6, <3>1, <4>1
      <4>3. ASSUME NEW i \in 1 .. pos' PROVE scancode_history'[i] = event[i]
        <5>1. CASE i = pos + 1
          BY <1>5, <3>1, <4>1, <5>1
        <5>2. CASE i # pos + 1
          <6>1. i \in 1 .. pos
            BY <1>1, <1>6, <5>2
          <6> QED
            BY <1>5, <3>1, <4>1, <6>1
        <5> QED
          BY <5>1, <5>2
      <4> QED
        BY <1>1, <1>6, <2>1, <3>1, <4>2, <4>3 DEF InStep
    <3>2. CASE ~Collects(sc)
      BY <1>1, <1>5, <1>6, <2>1, <3>2 DEF InStep
    <3> QED
      BY <3>1, <3>2
  <2>4. KeysExact'
    BY <1>1, <1>3, <1>6, <2>1 DEF KeysExact
  <2> QED
    BY <1>8, <1>9, <2>2, <2>3, <2>4, Zenon DEF Inv
<1> QED
  BY <1>10, <1>11

LEMMA NextInv == Inv /\ [KbNext]_kbvars => Inv'
<1> SUFFICES ASSUME Inv, [KbNext]_kbvars PROVE Inv'
  OBVIOUS
<1>1. CASE \E e \in Events : Send(e)
  BY <1>1, SendInv
<1>2. CASE Receive
  BY <1>2, ReceiveInv
<1>3. CASE Lose
  BY <1>3, LoseInv
<1>4. CASE UNCHANGED kbvars
  BY <1>4 DEF kbvars, Inv, KbTypeOK, InStep, KeysExact, Pending, scancode_depth
<1> QED
  BY <1>1, <1>2, <1>3, <1>4 DEF KbNext

LEMMA Invariance == KbSpec => []Inv
BY InitInv, NextInv, PTL DEF KbSpec

\* kb_handler never stores past the six entries of scancode_history, whatever
\* bytes arrive.
THEOREM DepthBounded == KbSpec => []KbTypeOK
<1>1. Inv => KbTypeOK
  BY DEF Inv
<1> QED
  BY Invariance, <1>1, PTL

\* The shell gets exactly the key codes of the keys, for every table and keyboard.
THEOREM KeysAreExact == KbSpec => []KeysExact
<1>1. Inv => KeysExact
  BY DEF Inv
<1> QED
  BY Invariance, <1>1, PTL

\* After a lost byte the handler is back in step within five one-byte events.
THEOREM RecoversInFive == KbSpec => []Recovers
<1>1. Inv => Recovers
  <2> SUFFICES ASSUME Inv, quiet = 5 PROVE scancode_depth = 0
    BY DEF Recovers
  <2>1. lost
    BY DEF Inv, KbTypeOK
  <2>2. scancode_depth \in 0 .. 5
    BY DepthType
  <2>3. scancode_depth = 0 \/ scancode_depth > 5
    BY <2>1, Zenon DEF Inv
  <2> QED
    BY <2>2, <2>3
<1> QED
  BY Invariance, <1>1, PTL

=============================================================================
