------------------------- MODULE NearbyRelayProofs --------------------------
(***************************************************************************)
(* What is acknowledged is held, for any number of phones, events and      *)
(* frames being handled at once: whatever a phone carries, sends or        *)
(* acknowledges is in its journal, or was until it left the voyage.        *)
(***************************************************************************)
EXTENDS NearbyRelay, SequenceTheorems, TLAPS

CarryType ==
    /\ clock \in Nat
    /\ store \in [Phones -> SUBSET Events]
    /\ queue \in [Phones -> SUBSET QueueRow]
    /\ name \in [Phones -> Nat]
    /\ wire \in [Phones \X Phones -> Seq(WireFrame)]
    /\ receiving \in [Phones -> [Frames -> Receipt]]

Holds(p, e) == p \in left \/ e \in store[p]

\* A row's event is held by its phone and by whoever acknowledged it.
RowHeld(p, row) ==
    /\ Holds(p, row.event)
    /\ \A endpoint \in row.acked : Holds(endpoint[1], row.event)

\* What a frame brings or acknowledges is held by its sender.
FrameHeld(q, frame) ==
    /\ \A e \in frame.ids : Holds(q, e)
    /\ \A item \in frame.items : Holds(q, item.event)

\* What is to be handled is held by the sender, and of what will be acknowledged
\* the rest is held already.
ReceiptHeld(p, receipt) ==
    /\ receipt.todo \cup receipt.item # {} => receipt.from \in Phones \X Nat
    /\ \A item \in receipt.todo \cup receipt.item : Holds(receipt.from[1], item.event)
    /\ \A e \in receipt.ids :
           Holds(p, e) \/ \E item \in receipt.todo \cup receipt.item : item.event = e
    /\ receipt.step = 0 => receipt.item = {}
    /\ receipt.step = 2 => \A item \in receipt.item : Holds(p, item.event)

CarryInv ==
    /\ CarryType
    /\ \A p \in Phones : \A row \in queue[p] : RowHeld(p, row)
    /\ \A p, q \in Phones : \A i \in 1..Len(wire[<<q, p>>]) :
           FrameHeld(q, wire[<<q, p>>][i])
    /\ \A p \in Phones, f \in Frames : ReceiptHeld(p, receiving[p][f])

\* No phone that stays loses an event.
HoldsStay == \A p \in Phones, e \in Events : Holds(p, e) => Holds(p, e)'

----------------------------------------------------------------------------
(* The parts of the invariant, one by one *)

LEMMA RowStays ==
    ASSUME HoldsStay, NEW p \in Phones, NEW row \in QueueRow, RowHeld(p, row)
    PROVE  RowHeld(p, row)'
  <1>1. row.event \in Events /\ row.acked \subseteq Phones \X Nat
    BY DEF QueueRow
  <1>2. \A endpoint \in row.acked : endpoint[1] \in Phones
    BY <1>1
  <1> QED
    BY <1>1, <1>2 DEF RowHeld, HoldsStay

LEMMA FrameStays ==
    ASSUME HoldsStay, NEW q \in Phones, NEW frame \in WireFrame, FrameHeld(q, frame)
    PROVE  FrameHeld(q, frame)'
  BY DEF FrameHeld, HoldsStay, WireFrame, Item

LEMMA ReceiptStays ==
    ASSUME HoldsStay, NEW p \in Phones, NEW receipt \in Receipt, ReceiptHeld(p, receipt)
    PROVE  ReceiptHeld(p, receipt)'
  <1>1. /\ receipt.ids \subseteq Events
        /\ \A item \in receipt.todo \cup receipt.item : item.event \in Events
    BY DEF Receipt, Item
  <1>2. receipt.todo \cup receipt.item # {} => receipt.from[1] \in Phones
    BY DEF ReceiptHeld
  <1>3. \A item \in receipt.todo \cup receipt.item : Holds(receipt.from[1], item.event)'
    BY <1>1, <1>2 DEF ReceiptHeld, HoldsStay
  <1>4. \A e \in receipt.ids :
           Holds(p, e)' \/ \E item \in receipt.todo \cup receipt.item : item.event = e
    BY <1>1 DEF ReceiptHeld, HoldsStay
  <1>5. receipt.step = 2 => \A item \in receipt.item : Holds(p, item.event)'
    BY <1>1 DEF ReceiptHeld, HoldsStay
  <1> QED
    BY <1>3, <1>4, <1>5 DEF ReceiptHeld

\* Rows that were there, or are held.
LEMMA QueueStep ==
    ASSUME CarryInv, HoldsStay, queue' \in [Phones -> SUBSET QueueRow],
           \A p \in Phones : \A row \in queue'[p] : row \in queue[p] \/ RowHeld(p, row)'
    PROVE  \A p \in Phones : \A row \in queue'[p] : RowHeld(p, row)'
  <1> SUFFICES ASSUME NEW p \in Phones, NEW row \in queue'[p] PROVE RowHeld(p, row)'
    OBVIOUS
  <1>1. row \in QueueRow
    OBVIOUS
  <1>2. row \in queue[p] => RowHeld(p, row)
    BY DEF CarryInv
  <1> QED
    BY <1>1, <1>2, RowStays

\* Frames that were under way, or are held.
LEMMA WireStep ==
    ASSUME CarryInv, HoldsStay, wire' \in [Phones \X Phones -> Seq(WireFrame)],
           \A p, q \in Phones : \A i \in 1..Len(wire'[<<q, p>>]) :
               \/ \E j \in 1..Len(wire[<<q, p>>]) : wire'[<<q, p>>][i] = wire[<<q, p>>][j]
               \/ FrameHeld(q, wire[<<q, p>>][i])'
    PROVE  \A p, q \in Phones : \A i \in 1..Len(wire'[<<q, p>>]) :
               FrameHeld(q, wire[<<q, p>>][i])'
  <1> SUFFICES ASSUME NEW p \in Phones, NEW q \in Phones, NEW i \in 1..Len(wire'[<<q, p>>])
               PROVE  FrameHeld(q, wire[<<q, p>>][i])'
    OBVIOUS
  <1>1. wire'[<<q, p>>] \in Seq(WireFrame)
    OBVIOUS
  <1>2. wire'[<<q, p>>][i] \in WireFrame
    BY <1>1, ElementOfSeq
  <1>3. PICK frame \in WireFrame : frame = wire'[<<q, p>>][i]
    BY <1>2
  <1>4. FrameHeld(q, frame) => FrameHeld(q, frame)'
    BY FrameStays
  <1>5. FrameHeld(q, frame)' <=> FrameHeld(q, wire[<<q, p>>][i])'
    BY <1>3 DEF FrameHeld
  <1>6. (\E j \in 1..Len(wire[<<q, p>>]) : frame = wire[<<q, p>>][j]) => FrameHeld(q, frame)
    BY DEF CarryInv
  <1> QED
    BY <1>3, <1>4, <1>5, <1>6

\* Frames being handled that were, or are held.
LEMMA ReceivingStep ==
    ASSUME CarryInv, HoldsStay, receiving' \in [Phones -> [Frames -> Receipt]],
           \A p \in Phones, f \in Frames :
               receiving'[p][f] = receiving[p][f] \/ ReceiptHeld(p, receiving[p][f])'
    PROVE  \A p \in Phones, f \in Frames : ReceiptHeld(p, receiving[p][f])'
  <1> SUFFICES ASSUME NEW p \in Phones, NEW f \in Frames
               PROVE  ReceiptHeld(p, receiving[p][f])'
    OBVIOUS
  <1>1. PICK receipt \in Receipt : receipt = receiving'[p][f]
    OBVIOUS
  <1>2. receipt = receiving[p][f] => ReceiptHeld(p, receipt)
    BY DEF CarryInv
  <1>3. ReceiptHeld(p, receipt) => ReceiptHeld(p, receipt)'
    BY ReceiptStays
  <1>4. ReceiptHeld(p, receipt)' <=> ReceiptHeld(p, receiving[p][f])'
    BY <1>1 DEF ReceiptHeld
  <1> QED
    BY <1>1, <1>2, <1>3, <1>4

\* A step that sends nothing: what was under way stays, or is lost with others.
LEMMA UnwiredStep ==
    ASSUME CarryInv, HoldsStay, NEW broken, wire' = Unwired(broken)
    PROVE  /\ wire' \in [Phones \X Phones -> Seq(WireFrame)]
           /\ \A p, q \in Phones : \A i \in 1..Len(wire'[<<q, p>>]) :
                  FrameHeld(q, wire[<<q, p>>][i])'
  <1>1. wire' \in [Phones \X Phones -> Seq(WireFrame)]
    BY DEF Unwired, CarryInv, CarryType
  <1>2. \A p, q \in Phones : wire'[<<q, p>>] \in {<<>>, wire[<<q, p>>]}
    BY DEF Unwired
  <1>3. \A p, q \in Phones : \A i \in 1..Len(wire'[<<q, p>>]) :
            \E j \in 1..Len(wire[<<q, p>>]) : wire'[<<q, p>>][i] = wire[<<q, p>>][j]
    BY <1>2
  <1> QED
    BY <1>1, <1>3, WireStep

\* What is sent is held by its sender.
LEMMA SendStep ==
    ASSUME CarryInv, HoldsStay, NEW p \in Phones, NEW frames, SendEach(p, frames),
           \A q \in Phones \cap DOMAIN frames :
               frames[q] \in WireFrame /\ FrameHeld(p, frames[q])
    PROVE  /\ wire' \in [Phones \X Phones -> Seq(WireFrame)]
           /\ \A r, q \in Phones : \A i \in 1..Len(wire'[<<q, r>>]) :
                  FrameHeld(q, wire[<<q, r>>][i])'
  <1>1. wire \in [Phones \X Phones -> Seq(WireFrame)]
    BY DEF CarryInv, CarryType
  <1>2. ASSUME NEW q \in Phones, NEW r \in Phones
        PROVE  \/ wire'[<<q, r>>] = wire[<<q, r>>]
               \/ /\ q = p /\ r \in DOMAIN frames
                  /\ wire'[<<q, r>>] = Append(wire[<<q, r>>], frames[r])
    BY <1>1 DEF SendEach
  <1>3. wire' \in [Phones \X Phones -> Seq(WireFrame)]
    <2>1. ASSUME NEW q \in Phones, NEW r \in Phones
          PROVE  wire'[<<q, r>>] \in Seq(WireFrame)
      <3>1. wire[<<q, r>>] \in Seq(WireFrame)
        BY <1>1
      <3>2. q = p /\ r \in DOMAIN frames =>
                Append(wire[<<q, r>>], frames[r]) \in Seq(WireFrame)
        BY <3>1, AppendProperties
      <3> QED
        BY <1>2, <3>1, <3>2
    <2>2. DOMAIN wire' = Phones \X Phones
          /\ wire' = [way \in Phones \X Phones |-> wire'[way]]
      BY DEF SendEach
    <2> QED
      BY <2>1, <2>2
  <1>4. ASSUME NEW r \in Phones, NEW q \in Phones, NEW i \in 1..Len(wire'[<<q, r>>])
        PROVE  \/ \E j \in 1..Len(wire[<<q, r>>]) : wire'[<<q, r>>][i] = wire[<<q, r>>][j]
               \/ FrameHeld(q, wire[<<q, r>>][i])'
    <2>1. CASE wire'[<<q, r>>] = wire[<<q, r>>]
      BY <2>1
    <2>2. CASE /\ q = p /\ r \in DOMAIN frames
               /\ wire'[<<q, r>>] = Append(wire[<<q, r>>], frames[r])
      <3>1. wire[<<q, r>>] \in Seq(WireFrame) /\ frames[r] \in WireFrame
        BY <1>1, <2>2
      <3>2. CASE i \in 1..Len(wire[<<q, r>>])
        BY <2>2, <3>1, <3>2
      <3>3. CASE i = Len(wire[<<q, r>>]) + 1
        <4>1. wire'[<<q, r>>][i] = frames[r]
          BY <2>2, <3>1, <3>3
        <4>2. PICK frame \in WireFrame : frame = frames[r]
          BY <3>1
        <4>3. FrameHeld(q, frame)'
          BY <2>2, <4>2, FrameStays
        <4> QED
          BY <4>1, <4>2, <4>3 DEF FrameHeld
      <3> QED
        BY <2>2, <3>1, <3>2, <3>3
    <2> QED
      BY <1>2, <2>1, <2>2
  <1> QED
    BY <1>3, <1>4, WireStep

LEMMA PrunedRows ==
    ASSUME NEW rows, NEW at PROVE Pruned(rows, at) \subseteq rows
  BY DEF Pruned, MostUrgent

LEMMA NothingLost ==
    ASSUME UNCHANGED <<store, left>> PROVE HoldsStay
  BY DEF HoldsStay, Holds

\* A step that only prunes a queue keeps the queues.
LEMMA PruneStep ==
    ASSUME CarryInv, HoldsStay, NEW p \in Phones,
           queue' = [queue EXCEPT ![p] = Pruned(queue[p], clock)]
    PROVE  /\ queue' \in [Phones -> SUBSET QueueRow]
           /\ \A q \in Phones : \A row \in queue'[q] : RowHeld(q, row)'
  <1>1. queue \in [Phones -> SUBSET QueueRow] /\ Pruned(queue[p], clock) \subseteq queue[p]
    BY PrunedRows DEF CarryInv, CarryType
  <1>2. queue' \in [Phones -> SUBSET QueueRow]
    BY <1>1
  <1>3. \A q \in Phones : \A row \in queue'[q] : row \in queue[q]
    BY <1>1
  <1> QED
    BY <1>2, <1>3, QueueStep

\* What a step leaves alone stays held.
LEMMA Kept ==
    ASSUME CarryInv, HoldsStay
    PROVE  /\ queue' = queue => \A p \in Phones : \A row \in queue'[p] : RowHeld(p, row)'
           /\ wire' = wire => \A p, q \in Phones : \A i \in 1..Len(wire'[<<q, p>>]) :
                                 FrameHeld(q, wire[<<q, p>>][i])'
           /\ receiving' = receiving =>
                  \A p \in Phones, f \in Frames : ReceiptHeld(p, receiving[p][f])'
  <1> USE DEF CarryInv, CarryType
  <1>1. ASSUME queue' = queue PROVE \A p \in Phones : \A row \in queue'[p] : RowHeld(p, row)'
    BY <1>1, QueueStep
  <1>2. ASSUME wire' = wire
        PROVE  \A p, q \in Phones : \A i \in 1..Len(wire'[<<q, p>>]) :
                   FrameHeld(q, wire[<<q, p>>][i])'
    BY <1>2, WireStep
  <1>3. ASSUME receiving' = receiving
        PROVE  \A p \in Phones, f \in Frames : ReceiptHeld(p, receiving[p][f])'
    BY <1>3, ReceivingStep
  <1> QED
    BY <1>1, <1>2, <1>3

\* One frame being handled changes.
LEMMA HandlingStep ==
    ASSUME CarryInv, HoldsStay, NEW p \in Phones, NEW f \in Frames, NEW receipt \in Receipt,
           receiving' = [receiving EXCEPT ![p][f] = receipt], ReceiptHeld(p, receipt)'
    PROVE  /\ receiving' \in [Phones -> [Frames -> Receipt]]
           /\ \A q \in Phones, g \in Frames : ReceiptHeld(q, receiving[q][g])'
  <1>1. receiving \in [Phones -> [Frames -> Receipt]]
    BY DEF CarryInv, CarryType
  <1>2. /\ receiving' \in [Phones -> [Frames -> Receipt]]
        /\ receiving'[p][f] = receipt
        /\ \A q \in Phones, g \in Frames :
               q # p \/ g # f => receiving'[q][g] = receiving[q][g]
    BY <1>1
  <1>3. ReceiptHeld(p, receiving[p][f])'
    BY <1>2 DEF ReceiptHeld
  <1>4. ASSUME NEW q \in Phones, NEW g \in Frames
        PROVE  receiving'[q][g] = receiving[q][g] \/ ReceiptHeld(q, receiving[q][g])'
    <2>1. CASE q = p /\ g = f
      BY <1>3, <2>1
    <2>2. CASE q # p \/ g # f
      BY <1>2, <2>2
    <2> QED
      BY <2>1, <2>2
  <1> QED
    BY <1>2, <1>4, ReceivingStep

----------------------------------------------------------------------------
(* The actions *)

LEMMA PublishCarries ==
    ASSUME CarryInv, NEW p \in Phones, NEW e \in Events, Publish(p, e) PROVE CarryInv'
  <1> DEFINE new == Pruned(WithRow(p, Row(e, 0, clock + Lifetime[e], {})), clock)
  <1>1. HoldsStay
    BY NothingLost DEF Publish
  <1>2. PICK row \in QueueRow : row = Row(e, 0, clock + Lifetime[e], {})
    <2>1. Row(e, 0, clock + Lifetime[e], {}) \in QueueRow
      BY NearbyAssumption DEF Row, QueueRow, CarryInv, CarryType
    <2> QED
      BY <2>1
  <1>3. new \subseteq queue[p] \cup {row}
    BY <1>2, PrunedRows DEF WithRow
  <1>4. queue' = [queue EXCEPT ![p] = new]
    BY DEF Publish
  <1>5. RowHeld(p, row)'
    BY <1>2 DEF Publish, RowHeld, Row, Holds
  <1> HIDE DEF new
  <1>6. queue' \in [Phones -> SUBSET QueueRow]
    BY <1>2, <1>3, <1>4 DEF CarryInv, CarryType
  <1>7. ASSUME NEW q \in Phones, NEW x \in queue'[q]
        PROVE  x \in queue[q] \/ RowHeld(q, x)'
    <2>1. CASE q = p /\ x = row
      BY <1>5, <2>1
    <2>2. CASE ~(q = p /\ x = row)
      BY <1>3, <1>4, <2>2 DEF CarryInv, CarryType
    <2> QED
      BY <2>1, <2>2
  <1>8. \A q \in Phones : \A x \in queue'[q] : RowHeld(q, x)'
    BY <1>1, <1>6, <1>7, QueueStep
  <1>9. CarryType'
    BY <1>6 DEF CarryInv, CarryType, Publish, radio
  <1> QED
    BY <1>8, <1>9 DEF CarryInv, Publish, FrameHeld, ReceiptHeld, Holds, radio

LEMMA FlushCarries ==
    ASSUME CarryInv, NEW p \in Phones, Flush(p) PROVE CarryInv'
  <1>1. HoldsStay
    BY NothingLost DEF Flush
  <1>2. PICK to : SendEach(p, [q \in to |-> Frame(Batch(p, Endpoint(q), clock))])
    BY DEF Flush
  <1>3. ASSUME NEW q \in Phones
        PROVE  /\ Frame(Batch(p, Endpoint(q), clock)) \in WireFrame
               /\ FrameHeld(p, Frame(Batch(p, Endpoint(q), clock)))
    <2>1. PICK batch \in SUBSET queue[p] : /\ batch = Batch(p, Endpoint(q), clock)
                                           /\ \A row \in batch : row.hops < MaxHops
      <3>1. /\ Batch(p, Endpoint(q), clock) \subseteq Pending(p, Endpoint(q), clock)
            /\ Pending(p, Endpoint(q), clock) \subseteq {row \in queue[p] : row.hops < MaxHops}
        BY DEF Batch, MostUrgent, Pending
      <3> QED
        BY <3>1
    <2>2. batch \subseteq QueueRow /\ \A row \in batch : Holds(p, row.event)
      BY <2>1 DEF CarryInv, CarryType, RowHeld
    <2>3. \A row \in QueueRow : row.hops < MaxHops =>
              [event |-> row.event, hops |-> row.hops, expires |-> row.expires] \in Item
      BY NearbyAssumption DEF QueueRow, Item
    <2>4. Frame(batch) \in WireFrame
      <3>1. Frame(batch).items \subseteq Item
        BY <2>1, <2>2, <2>3 DEF Frame
      <3> QED
        BY <3>1 DEF Frame, WireFrame
    <2>5. FrameHeld(p, Frame(batch))
      BY <2>2 DEF Frame, FrameHeld
    <2> QED
      BY <2>1, <2>4, <2>5
  <1>4. \A q \in Phones \cap DOMAIN [q \in to |-> Frame(Batch(p, Endpoint(q), clock))] :
            LET frame == [r \in to |-> Frame(Batch(p, Endpoint(r), clock))][q]
            IN  frame \in WireFrame /\ FrameHeld(p, frame)
    BY <1>3
  <1>5. /\ wire' \in [Phones \X Phones -> Seq(WireFrame)]
        /\ \A r, q \in Phones : \A i \in 1..Len(wire'[<<q, r>>]) :
               FrameHeld(q, wire[<<q, r>>][i])'
    BY <1>1, <1>2, <1>4, SendStep
  <1>6. /\ queue' \in [Phones -> SUBSET QueueRow]
        /\ \A q \in Phones : \A row \in queue'[q] : RowHeld(q, row)'
    BY <1>1, PruneStep DEF Flush
  <1>7. UNCHANGED <<clock, store, name, receiving>>
    BY DEF Flush, engine
  <1>8. CarryType'
    BY <1>5, <1>6, <1>7 DEF CarryInv, CarryType
  <1> QED
    BY <1>1, <1>5, <1>6, <1>7, <1>8, Kept DEF CarryInv

\* The first frame of a connection.
LEMMA HeadHeld ==
    ASSUME CarryInv, NEW p \in Phones, NEW q \in Phones, wire[<<q, p>>] # <<>>
    PROVE  Head(wire[<<q, p>>]) \in WireFrame /\ FrameHeld(q, Head(wire[<<q, p>>]))
  <1>1. wire[<<q, p>>] \in Seq(WireFrame)
    BY DEF CarryInv, CarryType
  <1>2. 1 \in 1..Len(wire[<<q, p>>]) /\ Head(wire[<<q, p>>]) = wire[<<q, p>>][1]
    BY <1>1
  <1> QED
    BY <1>1, <1>2, ElementOfSeq DEF CarryInv

LEMMA TakenStep ==
    ASSUME CarryInv, HoldsStay, NEW p \in Phones, NEW q \in Phones,
           wire[<<q, p>>] # <<>>, wire' = [wire EXCEPT ![<<q, p>>] = Tail(@)]
    PROVE  /\ wire' \in [Phones \X Phones -> Seq(WireFrame)]
           /\ \A r, s \in Phones : \A i \in 1..Len(wire'[<<s, r>>]) :
                  FrameHeld(s, wire[<<s, r>>][i])'
  <1>1. wire \in [Phones \X Phones -> Seq(WireFrame)]
    BY DEF CarryInv, CarryType
  <1>2. PICK old \in Seq(WireFrame) : old = wire[<<q, p>>] /\ old # <<>>
    BY <1>1
  <1>3. /\ Tail(old) \in Seq(WireFrame)
        /\ \A i \in 1..Len(Tail(old)) : i + 1 \in 1..Len(old) /\ Tail(old)[i] = old[i + 1]
    BY <1>2
  <1>4. wire' = [wire EXCEPT ![<<q, p>>] = Tail(old)]
    BY <1>2
  <1>5. wire' \in [Phones \X Phones -> Seq(WireFrame)]
    BY <1>1, <1>3, <1>4
  <1>6. ASSUME NEW r \in Phones, NEW s \in Phones, NEW i \in 1..Len(wire'[<<s, r>>])
        PROVE  \E j \in 1..Len(wire[<<s, r>>]) : wire'[<<s, r>>][i] = wire[<<s, r>>][j]
    <2>1. CASE s = q /\ r = p
      BY <1>1, <1>2, <1>3, <1>4, <2>1
    <2>2. CASE ~(s = q /\ r = p)
      <3>1. <<s, r>> # <<q, p>>
        BY <2>2
      <3>2. wire'[<<s, r>>] = wire[<<s, r>>]
        BY <1>1, <1>4, <3>1
      <3> QED
        BY <3>2
    <2> QED
      BY <2>1, <2>2
  <1>7. \A r, s \in Phones : \A i \in 1..Len(wire'[<<s, r>>]) :
            \/ \E j \in 1..Len(wire[<<s, r>>]) : wire'[<<s, r>>][i] = wire[<<s, r>>][j]
            \/ FrameHeld(s, wire[<<s, r>>][i])'
    <2> TAKE r, s \in Phones
    <2> TAKE i \in 1..Len(wire'[<<s, r>>])
    <2> QED
      BY <1>6
  <1> QED
    BY <1>5, <1>7, WireStep, Zenon

LEMMA ReceiveCarries ==
    ASSUME CarryInv, NEW p \in Phones, NEW q \in Phones, ReceiveFrame(p, q) PROVE CarryInv'
  <1>1. HoldsStay
    BY NothingLost DEF ReceiveFrame
  <1>2. /\ wire' \in [Phones \X Phones -> Seq(WireFrame)]
        /\ \A r, s \in Phones : \A i \in 1..Len(wire'[<<s, r>>]) :
               FrameHeld(s, wire[<<s, r>>][i])'
    BY <1>1, TakenStep DEF ReceiveFrame
  <1>3. PICK frame \in WireFrame : frame = Head(wire[<<q, p>>]) /\ FrameHeld(q, frame)
    BY HeadHeld DEF ReceiveFrame
  <1>4. UNCHANGED <<clock, store, left, name>>
    BY DEF ReceiveFrame
  <1>5. Endpoint(q) \in Phones \X Nat /\ Endpoint(q)[1] = q
    BY DEF Endpoint, CarryInv, CarryType
  <1> DEFINE kept == Taken(p, frame.items)
  <1>6. CASE /\ receiving' = receiving
             /\ queue' = [queue EXCEPT ![p] = Noted(queue[p], frame.ids, Endpoint(q))]
    <2>1. \A row \in QueueRow : [row EXCEPT !.acked = @ \cup {Endpoint(q)}] \in QueueRow
      BY <1>5 DEF QueueRow
    <2>2. queue \in [Phones -> SUBSET QueueRow]
      BY DEF CarryInv, CarryType
    <2>3. queue' \in [Phones -> SUBSET QueueRow]
      BY <1>6, <2>1, <2>2 DEF Noted
    <2>4. ASSUME NEW r \in Phones, NEW x \in queue'[r]
          PROVE  x \in queue[r] \/ RowHeld(r, x)'
      <3>1. CASE r # p
        BY <1>6, <2>2, <3>1
      <3>2. CASE r = p
        <4>1. PICK row \in queue[p] :
                x = IF row.event \in frame.ids
                    THEN [row EXCEPT !.acked = @ \cup {Endpoint(q)}] ELSE row
          BY <1>6, <2>2, <3>2 DEF Noted
        <4>2. row \in QueueRow /\ RowHeld(p, row)
          BY <2>2 DEF CarryInv
        <4>3. CASE row.event \in frame.ids
          <5>1. x.event = row.event /\ x.acked = row.acked \cup {Endpoint(q)}
            BY <4>1, <4>2, <4>3 DEF QueueRow
          <5>2. Holds(q, row.event)
            BY <1>3, <4>3 DEF FrameHeld
          <5>3. RowHeld(p, x)
            BY <1>5, <4>2, <5>1, <5>2 DEF RowHeld
          <5>4. x \in QueueRow
            BY <2>1, <4>1, <4>2
          <5> QED
            BY <1>1, <3>2, <5>3, <5>4, RowStays
        <4> QED
          BY <3>2, <4>1, <4>3
      <3> QED
        BY <3>1, <3>2
    <2>5. \A r \in Phones : \A x \in queue'[r] : RowHeld(r, x)'
      BY <1>1, <2>3, <2>4, QueueStep
    <2>6. CarryType'
      BY <1>2, <1>4, <1>6, <2>3 DEF CarryInv, CarryType
    <2> QED
      BY <1>1, <1>2, <1>6, <2>5, <2>6, Kept DEF CarryInv
  <1>7. CASE queue' = queue /\ receiving' = receiving
    <2>1. CarryType'
      BY <1>2, <1>4, <1>7 DEF CarryInv, CarryType
    <2> QED
      BY <1>1, <1>2, <1>7, <2>1, Kept DEF CarryInv
  <1>8. ASSUME queue' = queue, NEW f \in Frames,
               receiving' = [receiving EXCEPT ![p][f] =
                   [from |-> Endpoint(q), todo |-> kept, item |-> {}, step |-> 0,
                    ids |-> {item.event : item \in kept}]]
        PROVE  CarryInv'
    <2>1. kept \subseteq Item /\ \A item \in kept : item.event \in Events /\ Holds(q, item.event)
      BY <1>3 DEF Taken, WireFrame, Item, FrameHeld
    <2>3. PICK receipt : receipt = [from |-> Endpoint(q), todo |-> kept, item |-> {}, step |-> 0,
                                    ids |-> {item.event : item \in kept}]
      OBVIOUS
    <2>4. receipt \in Receipt
      BY <1>5, <2>1, <2>3 DEF Receipt
    <2>5. ReceiptHeld(p, receipt)
      BY <1>5, <2>1, <2>3 DEF ReceiptHeld
    <2>6. receiving' = [receiving EXCEPT ![p][f] = receipt]
      BY <1>8, <2>3
    <2>7. /\ receiving' \in [Phones -> [Frames -> Receipt]]
          /\ \A r \in Phones, g \in Frames : ReceiptHeld(r, receiving[r][g])'
      BY <1>1, <2>4, <2>5, <2>6, ReceiptStays, HandlingStep
    <2>8. CarryType'
      BY <1>2, <1>4, <1>8, <2>7 DEF CarryInv, CarryType
    <2> QED
      BY <1>1, <1>2, <1>8, <2>7, <2>8, Kept DEF CarryInv
  <1> QED
    BY <1>3, <1>6, <1>7, <1>8 DEF ReceiveFrame

LEMMA LookUpCarries ==
    ASSUME CarryInv, NEW p \in Phones, NEW f \in Frames, LookUp(p, f) PROVE CarryInv'
  <1>1. HoldsStay
    BY NothingLost DEF LookUp, durable
  <1>2. PICK old \in Receipt : old = receiving[p][f] /\ ReceiptHeld(p, old) /\ old.step = 0
    BY DEF LookUp, CarryInv, CarryType
  <1>3. PICK item \in old.todo :
          receiving' = [receiving EXCEPT
               ![p][f].todo = @ \ {item},
               ![p][f].item = IF item.event \in Queued(p) THEN {} ELSE {item},
               ![p][f].step = IF item.event \in Queued(p) THEN 0 ELSE 1]
    BY <1>2 DEF LookUp
  <1>4. item \in Item /\ item.event \in Events
    BY DEF Receipt, Item
  <1>5. item.event \in Queued(p) => Holds(p, item.event)
    BY DEF Queued, CarryInv, RowHeld
  <1>6. PICK new : new = [old EXCEPT !.todo = @ \ {item},
                                     !.item = IF item.event \in Queued(p) THEN {} ELSE {item},
                                     !.step = IF item.event \in Queued(p) THEN 0 ELSE 1]
    OBVIOUS
  <1>7. /\ new \in Receipt
        /\ new.from = old.from /\ new.ids = old.ids /\ new.todo = old.todo \ {item}
        /\ \/ new.item = {} /\ new.step = 0 /\ Holds(p, item.event)
           \/ new.item = {item} /\ new.step = 1
    <2> DEFINE some == IF item.event \in Queued(p) THEN {} ELSE {item}
               step == IF item.event \in Queued(p) THEN 0 ELSE 1
    <2>1. /\ new = [old EXCEPT !.todo = @ \ {item}, !.item = some, !.step = step]
          /\ some \in SUBSET Item /\ step \in 0..2
          /\ \/ some = {} /\ step = 0 /\ item.event \in Queued(p)
             \/ some = {item} /\ step = 1
      BY <1>4, <1>6
    <2> HIDE DEF some, step
    <2>2. /\ new \in Receipt
          /\ new.from = old.from /\ new.ids = old.ids /\ new.todo = old.todo \ {item}
          /\ new.item = some /\ new.step = step
      BY <1>2, <2>1 DEF Receipt
    <2> QED
      BY <1>5, <2>1, <2>2
  <1>8. old.item = {}
    BY <1>2 DEF ReceiptHeld
  <1>9. ReceiptHeld(p, new)
    BY <1>2, <1>7, <1>8 DEF ReceiptHeld
  <1>10. receiving' = [receiving EXCEPT ![p][f] = new]
    BY <1>2, <1>3, <1>6 DEF CarryInv, CarryType
  <1>11. /\ receiving' \in [Phones -> [Frames -> Receipt]]
         /\ \A r \in Phones, g \in Frames : ReceiptHeld(r, receiving[r][g])'
    BY <1>1, <1>7, <1>9, <1>10, ReceiptStays, HandlingStep
  <1>12. UNCHANGED <<clock, store, left, queue, name, wire>>
    BY DEF LookUp, durable, radio
  <1>13. CarryType'
    BY <1>11, <1>12 DEF CarryInv, CarryType
  <1> QED
    BY <1>1, <1>11, <1>12, <1>13, Kept DEF CarryInv

\* The frame a phone is inside of, and what the write after another makes of it.
LEMMA WrittenReceipt ==
    ASSUME CarryInv, NEW p \in Phones, NEW f \in Frames, Written(p, f),
           receiving[p][f].step # 0
    PROVE  \E old, new \in Receipt :
               /\ old = receiving[p][f] /\ ReceiptHeld(p, old)
               /\ receiving' = [receiving EXCEPT ![p][f] = new]
               /\ new.from = old.from /\ new.todo = old.todo /\ new.ids = old.ids
               /\ \/ old.step = 1 /\ new.step = 2 /\ new.item = old.item
                  \/ old.step = 2 /\ new.step = 0 /\ new.item = {}
  <1>1. PICK old \in Receipt : old = receiving[p][f] /\ ReceiptHeld(p, old) /\ old.step # 0
    BY DEF CarryInv, CarryType
  <1> DEFINE step == (old.step + 1) % 3
             item == IF old.step = 2 THEN {} ELSE old.item
  <1>2. PICK new : new = [old EXCEPT !.step = step, !.item = item]
    OBVIOUS
  <1>3. old.step \in {1, 2} /\ old.item \in SUBSET Item
    BY <1>1 DEF Receipt
  <1>4. /\ step \in 0..2 /\ item \in SUBSET Item
        /\ \/ old.step = 1 /\ step = 2 /\ item = old.item
           \/ old.step = 2 /\ step = 0 /\ item = {}
    BY <1>3
  <1>5. receiving' = [receiving EXCEPT ![p][f] = new]
    BY <1>1, <1>2 DEF Written, CarryInv, CarryType
  <1> HIDE DEF step, item
  <1>6. /\ new \in Receipt
        /\ new.from = old.from /\ new.todo = old.todo /\ new.ids = old.ids
        /\ new.step = step /\ new.item = item
    BY <1>1, <1>2, <1>4 DEF Receipt
  <1> QED
    BY <1>1, <1>4, <1>5, <1>6

LEMMA AppendCarries ==
    ASSUME CarryInv, NEW p \in Phones, NEW f \in Frames, AppendEvent(p, f) PROVE CarryInv'
  <1>1. PICK old \in Receipt, new \in Receipt :
            /\ old = receiving[p][f] /\ ReceiptHeld(p, old)
            /\ receiving' = [receiving EXCEPT ![p][f] = new]
            /\ new.from = old.from /\ new.todo = old.todo /\ new.ids = old.ids
            /\ \/ old.step = 1 /\ new.step = 2 /\ new.item = old.item
               \/ old.step = 2 /\ new.step = 0 /\ new.item = {}
    BY WrittenReceipt DEF AppendEvent
  <1>2. old.step = 1 /\ new.step = 2 /\ new.item = old.item
    BY <1>1 DEF AppendEvent, Writes
  <1>3. \A item \in old.item : item.event \in Events
    BY DEF Receipt, Item
  <1>4. store' = [store EXCEPT ![p] = @ \cup {item.event : item \in old.item}]
    BY <1>1 DEF AppendEvent
  <1>5. store \in [Phones -> SUBSET Events]
    BY DEF CarryInv, CarryType
  <1>6. store' \in [Phones -> SUBSET Events]
    BY <1>3, <1>4, <1>5
  <1>7. HoldsStay
    BY <1>4, <1>5 DEF HoldsStay, Holds, AppendEvent
  <1>8. ReceiptHeld(p, old)'
    BY <1>1, <1>7, ReceiptStays
  <1>9. \A item \in new.item : Holds(p, item.event)'
    BY <1>2, <1>4, <1>5 DEF Holds
  <1>10. ReceiptHeld(p, new)'
    BY <1>1, <1>2, <1>8, <1>9 DEF ReceiptHeld
  <1>11. /\ receiving' \in [Phones -> [Frames -> Receipt]]
         /\ \A r \in Phones, g \in Frames : ReceiptHeld(r, receiving[r][g])'
    BY <1>1, <1>7, <1>10, HandlingStep
  <1>12. UNCHANGED <<clock, queue, name, wire>>
    BY DEF AppendEvent, radio
  <1>13. CarryType'
    BY <1>6, <1>11, <1>12 DEF CarryInv, CarryType
  <1> QED
    BY <1>7, <1>11, <1>12, <1>13, Kept DEF CarryInv

LEMMA EnqueueCarries ==
    ASSUME CarryInv, NEW p \in Phones, NEW f \in Frames, Enqueue(p, f) PROVE CarryInv'
  <1>1. PICK old \in Receipt, new \in Receipt :
            /\ old = receiving[p][f] /\ ReceiptHeld(p, old)
            /\ receiving' = [receiving EXCEPT ![p][f] = new]
            /\ new.from = old.from /\ new.todo = old.todo /\ new.ids = old.ids
            /\ \/ old.step = 1 /\ new.step = 2 /\ new.item = old.item
               \/ old.step = 2 /\ new.step = 0 /\ new.item = {}
    BY WrittenReceipt DEF Enqueue
  <1>2. old.step = 2 /\ new.step = 0 /\ new.item = {}
    BY <1>1 DEF Enqueue, Writes
  <1>3. HoldsStay
    BY NothingLost DEF Enqueue
  <1>4. PICK item \in old.item :
            queue' = [queue EXCEPT ![p] =
                WithRow(p, Row(item.event, item.hops + 1, item.expires, {old.from}))]
    BY <1>1 DEF Enqueue
  <1>5. /\ item \in Item /\ old.from \in Phones \X Nat
        /\ Holds(p, item.event) /\ Holds(old.from[1], item.event)
    BY <1>1, <1>2 DEF Receipt, ReceiptHeld
  <1>6. PICK row \in QueueRow : row = Row(item.event, item.hops + 1, item.expires, {old.from})
    <2>1. Row(item.event, item.hops + 1, item.expires, {old.from}) \in QueueRow
      BY <1>5, NearbyAssumption DEF Row, QueueRow, Item
    <2> QED
      BY <2>1
  <1>7. RowHeld(p, row)
    BY <1>5, <1>6 DEF RowHeld, Row
  <1>8. queue \in [Phones -> SUBSET QueueRow]
    BY DEF CarryInv, CarryType
  <1>9. queue' \in [Phones -> SUBSET QueueRow]
    BY <1>4, <1>6, <1>8 DEF WithRow
  <1>10. ASSUME NEW q \in Phones, NEW x \in queue'[q]
         PROVE  x \in queue[q] \/ RowHeld(q, x)'
    <2>1. (q = p /\ x = row) \/ x \in queue[q]
      BY <1>4, <1>6, <1>8 DEF WithRow
    <2>2. RowHeld(p, row)'
      BY <1>3, <1>7, RowStays
    <2> QED
      BY <2>1, <2>2
  <1>11. \A q \in Phones : \A x \in queue'[q] : RowHeld(q, x)'
    BY <1>3, <1>9, <1>10, QueueStep
  <1>12. ReceiptHeld(p, new)
    BY <1>1, <1>2 DEF ReceiptHeld
  <1>13. /\ receiving' \in [Phones -> [Frames -> Receipt]]
         /\ \A r \in Phones, g \in Frames : ReceiptHeld(r, receiving[r][g])'
    BY <1>1, <1>3, <1>12, ReceiptStays, HandlingStep
  <1>14. UNCHANGED <<clock, store, name, wire>>
    BY DEF Enqueue, radio
  <1>15. CarryType'
    BY <1>9, <1>13, <1>14 DEF CarryInv, CarryType
  <1> QED
    BY <1>3, <1>11, <1>13, <1>14, <1>15, Kept DEF CarryInv

LEMMA NothingHeld == ASSUME NEW p PROVE NoFrame \in Receipt /\ ReceiptHeld(p, NoFrame)
  BY DEF NoFrame, Receipt, ReceiptHeld

LEMMA AcknowledgeCarries ==
    ASSUME CarryInv, NEW p \in Phones, NEW f \in Frames, Acknowledge(p, f) PROVE CarryInv'
  <1>1. HoldsStay
    BY NothingLost DEF Acknowledge
  <1>2. PICK old \in Receipt :
            /\ old = receiving[p][f] /\ ReceiptHeld(p, old)
            /\ old.step = 0 /\ old.todo = {}
    BY DEF Acknowledge, CarryInv, CarryType
  <1>3. \A e \in old.ids : Holds(p, e)
    BY <1>2 DEF ReceiptHeld
  <1>4. receiving' = [receiving EXCEPT ![p][f] = NoFrame]
    BY DEF Acknowledge
  <1>5. ReceiptHeld(p, NoFrame)'
    BY <1>1, NothingHeld, ReceiptStays
  <1>6. /\ receiving' \in [Phones -> [Frames -> Receipt]]
        /\ \A r \in Phones, g \in Frames : ReceiptHeld(r, receiving[r][g])'
    BY <1>1, <1>4, <1>5, NothingHeld, HandlingStep
  <1>7. UNCHANGED <<clock, store, name>>
    BY DEF Acknowledge
  <1>8. CASE /\ SendEach(p, [q \in {old.from[1]} |->
                    [kind |-> "acknowledgement", ids |-> old.ids, items |-> {}]])
             /\ queue' = [queue EXCEPT ![p] = Pruned(queue[p], clock)]
    <2>1. PICK frame : frame = [kind |-> "acknowledgement", ids |-> old.ids, items |-> {}]
      OBVIOUS
    <2>2. frame \in WireFrame /\ FrameHeld(p, frame)
      BY <1>3, <2>1 DEF WireFrame, FrameHeld, Receipt
    <2>3. \A q \in Phones \cap DOMAIN [q \in {old.from[1]} |-> frame] :
              LET sent == [r \in {old.from[1]} |-> frame][q]
              IN  sent \in WireFrame /\ FrameHeld(p, sent)
      BY <2>2
    <2>4. SendEach(p, [q \in {old.from[1]} |-> frame])
      BY <1>8, <2>1
    <2>5. /\ wire' \in [Phones \X Phones -> Seq(WireFrame)]
          /\ \A r, q \in Phones : \A i \in 1..Len(wire'[<<q, r>>]) :
                 FrameHeld(q, wire[<<q, r>>][i])'
      BY <1>1, <2>3, <2>4, SendStep
    <2>6. /\ queue' \in [Phones -> SUBSET QueueRow]
          /\ \A q \in Phones : \A row \in queue'[q] : RowHeld(q, row)'
      BY <1>1, <1>8, PruneStep
    <2>7. CarryType'
      BY <1>6, <1>7, <2>5, <2>6 DEF CarryInv, CarryType
    <2> QED
      BY <1>6, <2>5, <2>6, <2>7 DEF CarryInv
  <1>9. CASE UNCHANGED <<wire, queue>>
    <2>1. CarryType'
      BY <1>6, <1>7, <1>9 DEF CarryInv, CarryType
    <2> QED
      BY <1>1, <1>6, <1>9, <2>1, Kept DEF CarryInv
  <1> QED
    BY <1>2, <1>8, <1>9 DEF Acknowledge

\* A phone whose engine stops.
LEMMA HaltCarries ==
    ASSUME CarryInv, NEW p \in Phones, Halt(p), HoldsStay,
           store' \in [Phones -> SUBSET Events],
           \/ receiving' = receiving
           \/ receiving' = [receiving EXCEPT ![p] = [f \in Frames |-> NoFrame]]
    PROVE  CarryInv'
  <1>1. /\ wire' \in [Phones \X Phones -> Seq(WireFrame)]
        /\ \A r, q \in Phones : \A i \in 1..Len(wire'[<<q, r>>]) :
               FrameHeld(q, wire[<<q, r>>][i])'
    BY UnwiredStep DEF Halt
  <1>2. receiving \in [Phones -> [Frames -> Receipt]]
    BY DEF CarryInv, CarryType
  <1>3. receiving' \in [Phones -> [Frames -> Receipt]]
    BY <1>2, NothingHeld
  <1>4. ASSUME NEW q \in Phones, NEW f \in Frames
        PROVE  receiving'[q][f] = receiving[q][f] \/ ReceiptHeld(q, receiving[q][f])'
    <2>1. receiving'[q][f] = receiving[q][f] \/ receiving'[q][f] = NoFrame
      BY <1>2
    <2>2. ReceiptHeld(q, NoFrame)'
      BY NothingHeld, ReceiptStays
    <2>3. receiving'[q][f] = NoFrame => ReceiptHeld(q, receiving[q][f])'
      BY <2>2 DEF ReceiptHeld, NoFrame
    <2> QED
      BY <2>1, <2>3
  <1>5. \A q \in Phones, f \in Frames : ReceiptHeld(q, receiving[q][f])'
    BY <1>3, <1>4, ReceivingStep
  <1>6. UNCHANGED <<clock, queue, name>>
    BY DEF Halt
  <1>7. CarryType'
    BY <1>1, <1>3, <1>6 DEF CarryInv, CarryType
  <1> QED
    BY <1>1, <1>5, <1>6, <1>7, Kept DEF CarryInv

LEMMA DieCarries ==
    ASSUME CarryInv, NEW p \in Phones, Die(p) PROVE CarryInv'
  <1>1. HoldsStay
    BY NothingLost DEF Die
  <1> QED
    BY <1>1, HaltCarries DEF Die, CarryInv, CarryType

LEMMA LeaveCarries ==
    ASSUME CarryInv, NEW p \in Phones, Leave(p) PROVE CarryInv'
  <1>1. store' \in [Phones -> SUBSET Events]
    BY DEF Leave, CarryInv, CarryType
  <1>2. HoldsStay
    BY DEF Leave, HoldsStay, Holds, CarryInv, CarryType
  <1> QED
    BY <1>1, <1>2, HaltCarries DEF Leave

LEMMA StartCarries ==
    ASSUME CarryInv, NEW p \in Phones, Start(p) PROVE CarryInv'
  <1>1. HoldsStay
    BY NothingLost DEF Start
  <1>2. /\ queue' \in [Phones -> SUBSET QueueRow]
        /\ \A q \in Phones : \A row \in queue'[q] : RowHeld(q, row)'
    BY <1>1, PruneStep DEF Start
  <1>3. UNCHANGED <<clock, store, wire, receiving>> /\ name' \in [Phones -> Nat]
    BY DEF Start, radio, CarryInv, CarryType
  <1>4. CarryType'
    BY <1>2, <1>3 DEF CarryInv, CarryType
  <1> QED
    BY <1>1, <1>2, <1>3, <1>4, Kept DEF CarryInv

\* A connection breaks, or the transport it belongs to is started again.
LEMMA BreakCarries ==
    ASSUME CarryInv, NEW broken, wire' = Unwired(broken), name' \in [Phones -> Nat],
           UNCHANGED <<clock, durable, receiving>>
    PROVE  CarryInv'
  <1>1. HoldsStay
    BY NothingLost DEF durable
  <1>2. /\ wire' \in [Phones \X Phones -> Seq(WireFrame)]
        /\ \A r, q \in Phones : \A i \in 1..Len(wire'[<<q, r>>]) :
               FrameHeld(q, wire[<<q, r>>][i])'
    BY <1>1, UnwiredStep
  <1>3. CarryType'
    BY <1>2 DEF CarryInv, CarryType, durable
  <1> QED
    BY <1>1, <1>2, <1>3, Kept DEF CarryInv, durable

\* A step that changes neither a journal, a queue nor a frame.
LEMMA IdleCarries ==
    ASSUME CarryInv, clock' \in Nat, UNCHANGED <<durable, name, wire, receiving>>
    PROVE  CarryInv'
  <1>1. HoldsStay
    BY NothingLost DEF durable
  <1>2. CarryType'
    BY DEF CarryInv, CarryType, durable
  <1> QED
    BY <1>1, <1>2, Kept DEF CarryInv, durable

LEMMA InitCarries == ASSUME NearbyInit PROVE CarryInv
  <1>1. PICK v \in Voyages :
            /\ name = [p \in Phones |-> IF p \in v.crew THEN 1 ELSE 0]
            /\ store = [p \in Phones |-> {e \in v.events : Author[e] = p}]
    BY DEF NearbyInit
  <1>2. v.events \subseteq Events
    BY NearbyAssumption
  <1>3. store \in [Phones -> SUBSET Events] /\ name \in [Phones -> Nat]
    BY <1>1, <1>2
  <1>4. receiving \in [Phones -> [Frames -> Receipt]]
    BY NothingHeld DEF NearbyInit
  <1>5. wire \in [Phones \X Phones -> Seq(WireFrame)]
    BY DEF NearbyInit
  <1>6. CarryType
    BY <1>3, <1>4, <1>5 DEF NearbyInit, CarryType
  <1>7. \A p, q \in Phones : Len(wire[<<q, p>>]) = 0
    BY DEF NearbyInit
  <1>8. \A p \in Phones, f \in Frames : ReceiptHeld(p, receiving[p][f])
    BY NothingHeld DEF NearbyInit
  <1>9. \A p \in Phones : \A row \in queue[p] : RowHeld(p, row)
    BY DEF NearbyInit
  <1> QED
    BY <1>6, <1>7, <1>8, <1>9 DEF CarryInv

----------------------------------------------------------------------------
\* The invariant: every journal, queue, frame under way and frame being handled
\* is well-formed, and each row, frame and receipt names only events that the
\* phone it stands for holds, or held until it left the voyage.
THEOREM CarryInvariant == NearbySpec => []CarryInv
  <1>1. NearbyInit => CarryInv
    BY InitCarries
  <1>2. CarryInv /\ [NearbyNext]_nearbyVars => CarryInv'
    <2> SUFFICES ASSUME CarryInv, [NearbyNext]_nearbyVars PROVE CarryInv'
      OBVIOUS
    <2>1. ASSUME NEW p \in Phones, NEW e \in Events, Publish(p, e) PROVE CarryInv'
      BY <2>1, PublishCarries
    <2>2. ASSUME NEW p \in Phones, Flush(p) PROVE CarryInv'
      BY <2>2, FlushCarries
    <2>3. ASSUME NEW p \in Phones, HearStatus(p) PROVE CarryInv'
      BY <2>3, IdleCarries DEF HearStatus, radio, CarryInv, CarryType
    <2>4. ASSUME NEW p \in Phones, Die(p) PROVE CarryInv'
      BY <2>4, DieCarries
    <2>5. ASSUME NEW p \in Phones, Leave(p) PROVE CarryInv'
      BY <2>5, LeaveCarries
    <2>6. ASSUME NEW p \in Phones, Start(p) PROVE CarryInv'
      BY <2>6, StartCarries
    <2>7. ASSUME NEW p \in Phones, Reconnect(p) PROVE CarryInv'
      <3>1. name' \in [Phones -> Nat]
        BY <2>7 DEF Reconnect, CarryInv, CarryType
      <3>2. \E broken : wire' = Unwired(broken)
        BY <2>7 DEF Reconnect
      <3>3. UNCHANGED <<clock, durable, receiving>>
        BY <2>7 DEF Reconnect
      <3> QED
        BY <3>1, <3>2, <3>3, BreakCarries
    <2>8. ASSUME NEW p \in Phones, NEW q \in Phones, ReceiveFrame(p, q) PROVE CarryInv'
      BY <2>8, ReceiveCarries
    <2>9. ASSUME NEW p \in Phones, NEW q \in Phones, Meet(p, q) PROVE CarryInv'
      BY <2>9, IdleCarries DEF Meet, CarryInv, CarryType
    <2>10. ASSUME NEW p \in Phones, NEW f \in Frames, Handling(p, f) PROVE CarryInv'
      BY <2>10, LookUpCarries, AppendCarries, EnqueueCarries, AcknowledgeCarries DEF Handling
    <2>11. ASSUME NEW pair \in links, Part(pair) PROVE CarryInv'
      BY <2>11, BreakCarries DEF Part, engine, CarryInv, CarryType
    <2>12. CASE NearbyTick
      BY <2>12, IdleCarries DEF NearbyTick, engine, radio, CarryInv, CarryType
    <2>13. CASE UNCHANGED nearbyVars
      BY <2>13, IdleCarries DEF nearbyVars, engine, radio, CarryInv, CarryType
    <2> QED
      BY <2>1, <2>2, <2>3, <2>4, <2>5, <2>6, <2>7, <2>8, <2>9, <2>10, <2>11, <2>12, <2>13
         DEF NearbyNext
  <1> QED
    BY <1>1, <1>2, PTL DEF NearbySpec

\* AcknowledgedIsHeld, for every number of phones, events and frames: what a
\* phone's queue says another has acknowledged, the other's journal holds,
\* whatever died between its writes, unless it has left the voyage since.
THEOREM AcknowledgedAlwaysHeld == NearbySpec => []AcknowledgedIsHeld
  <1>1. CarryInv => AcknowledgedIsHeld
    BY DEF CarryInv, RowHeld, Holds, AcknowledgedIsHeld
  <1> QED
    BY <1>1, CarryInvariant, PTL

----------------------------------------------------------------------------
(* The types *)

OneRowEach ==
    \A p \in Phones : \A row, other \in queue[p] : row.event = other.event => row = other

RosterType ==
    /\ running \subseteq Phones /\ left \subseteq Phones
    /\ published \in [Phones -> SUBSET Events]
    /\ links \subseteq InRange
    /\ meetings \in Nat /\ stops \in Nat

LEMMA RosterBegins == NearbyInit => RosterType
  BY NearbyAssumption DEF NearbyInit, RosterType

LEMMA RosterKept ==
    ASSUME CarryInv, RosterType, [NearbyNext]_nearbyVars PROVE RosterType'
  <1> USE DEF RosterType
  <1>1. ASSUME NEW p \in Phones, NEW e \in Events, Publish(p, e) PROVE RosterType'
    BY <1>1 DEF Publish, radio
  <1>2. ASSUME NEW p \in Phones, Flush(p) PROVE RosterType'
    BY <1>2 DEF Flush, engine
  <1>3. ASSUME NEW p \in Phones, HearStatus(p) PROVE RosterType'
    BY <1>3 DEF HearStatus, durable, radio
  <1>4. ASSUME NEW p \in Phones, Die(p) PROVE RosterType'
    BY <1>4 DEF Die, Halt
  <1>5. ASSUME NEW p \in Phones, Leave(p) PROVE RosterType'
    BY <1>5 DEF Leave, Halt
  <1>6. ASSUME NEW p \in Phones, Start(p) PROVE RosterType'
    BY <1>6 DEF Start, radio
  <1>7. ASSUME NEW p \in Phones, Reconnect(p) PROVE RosterType'
    BY <1>7 DEF Reconnect, durable
  <1>8. ASSUME NEW p \in Phones, NEW q \in Phones, ReceiveFrame(p, q) PROVE RosterType'
    BY <1>8 DEF ReceiveFrame
  <1>9. ASSUME NEW p \in Phones, NEW q \in Phones, Meet(p, q) PROVE RosterType'
    <2>1. /\ meetings' \in Nat /\ {p, q} \in InRange
          /\ links' = links \cup {{p, q}}
      BY <1>9 DEF Meet
    <2>2. links' \subseteq InRange
      BY <2>1, Zenon
    <2> QED
      BY <1>9, <2>1, <2>2 DEF Meet, durable
  <1>10. ASSUME NEW p \in Phones, NEW f \in Frames, LookUp(p, f) PROVE RosterType'
    BY <1>10 DEF LookUp, durable, radio
  <1>11. ASSUME NEW p \in Phones, NEW f \in Frames, AppendEvent(p, f) PROVE RosterType'
    BY <1>11 DEF AppendEvent, radio
  <1>12. ASSUME NEW p \in Phones, NEW f \in Frames, Enqueue(p, f) PROVE RosterType'
    <2>1. receiving[p][f].item \subseteq Item
      BY DEF CarryInv, CarryType, Receipt
    <2>2. {item.event : item \in receiving[p][f].item} \subseteq Events
      BY <2>1 DEF Item
    <2>3. published' = [published EXCEPT
               ![p] = @ \cup {item.event : item \in receiving[p][f].item}]
      BY <1>12 DEF Enqueue
    <2>4. published' \in [Phones -> SUBSET Events]
      BY <2>2, <2>3
    <2> QED
      BY <1>12, <2>4 DEF Enqueue, radio
  <1>13. ASSUME NEW p \in Phones, NEW f \in Frames, Acknowledge(p, f) PROVE RosterType'
    BY <1>13 DEF Acknowledge
  <1>14. ASSUME NEW pair \in links, Part(pair) PROVE RosterType'
    BY <1>14 DEF Part, durable, engine
  <1>15. CASE NearbyTick \/ UNCHANGED nearbyVars
    BY <1>15 DEF NearbyTick, nearbyVars, durable, engine, radio
  <1> QED
    BY <1>1, <1>2, <1>3, <1>4, <1>5, <1>6, <1>7, <1>8, <1>9, <1>10, <1>11, <1>12, <1>13,
       <1>14, <1>15 DEF NearbyNext, Handling

\* A queue with some rows removed, or with a row of an event that was not in it.
LEMMA FewerRows ==
    ASSUME CarryInv, OneRowEach, NEW p \in Phones, NEW rows, rows \subseteq queue[p],
           queue' = [queue EXCEPT ![p] = rows]
    PROVE  OneRowEach'
  <1>1. queue \in [Phones -> SUBSET QueueRow]
    BY DEF CarryInv, CarryType
  <1>2. \A q \in Phones : queue'[q] \subseteq queue[q]
    BY <1>1
  <1> QED
    BY <1>2 DEF OneRowEach

LEMMA OneRowMore ==
    ASSUME CarryInv, OneRowEach, NEW p \in Phones, NEW row, NEW rows,
           rows \subseteq WithRow(p, row), queue' = [queue EXCEPT ![p] = rows]
    PROVE  OneRowEach'
  <1>1. queue \in [Phones -> SUBSET QueueRow]
    BY DEF CarryInv, CarryType
  <1>2. CASE row.event \in Queued(p)
    BY <1>2, FewerRows DEF WithRow
  <1>3. CASE row.event \notin Queued(p)
    <2>1. rows \subseteq queue[p] \cup {row} /\ \A other \in queue[p] : other.event # row.event
      BY <1>3 DEF WithRow, Queued
    <2>2. \A one, other \in rows : one.event = other.event => one = other
      BY <2>1 DEF OneRowEach
    <2>3. \A q \in Phones : queue'[q] = IF q = p THEN rows ELSE queue[q]
      BY <1>1
    <2> QED
      BY <2>2, <2>3 DEF OneRowEach
  <1> QED
    BY <1>2, <1>3

\* Rows that are noted as acknowledged keep their events.
LEMMA NotedRows ==
    ASSUME CarryInv, OneRowEach, NEW p \in Phones, NEW ids, NEW endpoint,
           queue' = [queue EXCEPT ![p] = Noted(queue[p], ids, endpoint)]
    PROVE  OneRowEach'
  <1>1. queue \in [Phones -> SUBSET QueueRow]
    BY DEF CarryInv, CarryType
  <1>2. \A row \in QueueRow : [row EXCEPT !.acked = @ \cup {endpoint}].event = row.event
    BY DEF QueueRow
  <1>3. ASSUME NEW x \in queue'[p], NEW y \in queue'[p], x.event = y.event PROVE x = y
    <2>1. PICK a \in queue[p] : x = IF a.event \in ids
                                    THEN [a EXCEPT !.acked = @ \cup {endpoint}] ELSE a
      BY <1>1 DEF Noted
    <2>2. PICK b \in queue[p] : y = IF b.event \in ids
                                    THEN [b EXCEPT !.acked = @ \cup {endpoint}] ELSE b
      BY <1>1 DEF Noted
    <2>3. x.event = a.event /\ y.event = b.event
      BY <1>1, <1>2, <2>1, <2>2
    <2>4. a = b
      BY <1>3, <2>3 DEF OneRowEach
    <2> QED
      BY <2>1, <2>2, <2>4
  <1>4. \A q \in Phones \ {p} : queue'[q] = queue[q]
    BY <1>1
  <1> QED
    BY <1>3, <1>4 DEF OneRowEach

LEMMA RowsKept ==
    ASSUME CarryInv, OneRowEach, [NearbyNext]_nearbyVars PROVE OneRowEach'
  <1>1. ASSUME UNCHANGED queue PROVE OneRowEach'
    BY <1>1 DEF OneRowEach
  <1>2. ASSUME NEW p \in Phones, queue' = [queue EXCEPT ![p] = Pruned(queue[p], clock)]
        PROVE  OneRowEach'
    BY <1>2, PrunedRows, FewerRows
  <1>3. ASSUME NEW p \in Phones, NEW e \in Events, Publish(p, e) PROVE OneRowEach'
    <2>1. PICK row : queue' = [queue EXCEPT ![p] = Pruned(WithRow(p, row), clock)]
      BY <1>3 DEF Publish
    <2> QED
      BY <2>1, PrunedRows, OneRowMore
  <1>4. ASSUME NEW p \in Phones, Flush(p) \/ Start(p) PROVE OneRowEach'
    BY <1>2, <1>4 DEF Flush, Start
  <1>5. ASSUME NEW p \in Phones, NEW q \in Phones, ReceiveFrame(p, q) PROVE OneRowEach'
    <2>1. \/ UNCHANGED queue
          \/ \E ids, endpoint : queue' = [queue EXCEPT ![p] = Noted(queue[p], ids, endpoint)]
      BY <1>5 DEF ReceiveFrame
    <2> QED
      BY <1>1, <2>1, NotedRows
  <1>6. ASSUME NEW p \in Phones, NEW f \in Frames, Enqueue(p, f) PROVE OneRowEach'
    <2>1. PICK row : queue' = [queue EXCEPT ![p] = WithRow(p, row)]
      BY <1>6 DEF Enqueue
    <2> QED
      BY <2>1, OneRowMore
  <1>7. ASSUME NEW p \in Phones, NEW f \in Frames, Acknowledge(p, f) PROVE OneRowEach'
    BY <1>1, <1>2, <1>7 DEF Acknowledge
  <1>8. CASE \/ \E p \in Phones : HearStatus(p) \/ Die(p) \/ Leave(p) \/ Reconnect(p)
             \/ \E p, q \in Phones : Meet(p, q)
             \/ \E p \in Phones, f \in Frames : LookUp(p, f) \/ AppendEvent(p, f)
             \/ \E pair \in links : Part(pair)
             \/ NearbyTick \/ UNCHANGED nearbyVars
    BY <1>1, <1>8 DEF HearStatus, Die, Leave, Halt, Reconnect, Meet, LookUp, AppendEvent, Part,
       NearbyTick, nearbyVars, durable
  <1> QED
    BY <1>3, <1>4, <1>5, <1>6, <1>7, <1>8 DEF NearbyNext, Handling

\* Queues, frames and journals keep their shape: a phone has one row for an event,
\* however often it is published, received and received again, and no row or frame
\* has come more hops than an event may.
THEOREM NearbyTypeCorrect == NearbySpec => []NearbyTypeOK
  <1>1. NearbyInit => OneRowEach
    BY DEF NearbyInit, OneRowEach
  <1>2. CarryInv /\ OneRowEach /\ [NearbyNext]_nearbyVars => OneRowEach'
    BY RowsKept
  <1>3. CarryInv /\ RosterType /\ [NearbyNext]_nearbyVars => RosterType'
    BY RosterKept
  <1>4. CarryInv /\ OneRowEach /\ RosterType => NearbyTypeOK
    BY DEF CarryInv, CarryType, OneRowEach, RosterType, NearbyTypeOK
  <1> QED
    BY <1>1, <1>2, <1>3, <1>4, RosterBegins, CarryInvariant, PTL DEF NearbySpec
=============================================================================
