------------------------ MODULE EventConsumersProofs ------------------------
(***************************************************************************)
(* Proofs about the order topic's consumers, for any orders, any number of *)
(* messages and any number of failures: offsets never run ahead of their   *)
(* effects, and the analytics table, its counters and the topic agree.     *)
(***************************************************************************)
EXTENDS ConsumerClaims, FiniteSetTheorems, TLAPS

\* Every publication, of whatever kind, adds one message to the topic's end.
Publishes ==
    /\ \E m \in Message : Append1(m)
    /\ UNCHANGED <<row, loopVars, analyticsVars, notificationVars, dlq, passed, failures>>

\* Nothing happens, or an order enters a status nobody has been told of.
Unseen ==
    /\ row' = row \/ \E o \in Orders : \E s \in Status : Enter(o, s)
    /\ UNCHANGED <<topic, loopVars, analyticsVars, notificationVars, dlq, passed, failures>>

LEMMA PublicationsPublish ==
    ASSUME EventsTypeOK,
           \/ \E o \in Orders : PublishDecision(o) \/ \E s \in Status : Publish(o, s)
           \/ \E i \in 1..Len(topic) : Republish(topic[i])
           \/ PublishGarbled
    PROVE  Publishes
<1>1. ASSUME NEW o \in Orders, NEW type \in EventType, NEW s, s \in Status \/ type \notin Telling,
             Sends(o, type, s)
      PROVE  Publishes
  <2>1. [event |-> [order |-> o, type |-> type],
         status |-> IF type \in Telling THEN s ELSE "none"] \in EventMessage
    BY <1>1 DEF EventMessage, Event, Status
  <2>2. QED
    BY <1>1, <2>1 DEF Sends, Publishes, Message
<1>2. CASE \E o \in Orders : PublishDecision(o)
  BY <1>1, <1>2 DEF PublishDecision, EventType, Telling
<1>3. CASE \E o \in Orders : \E s \in Status : Publish(o, s)
  BY <1>1, <1>3 DEF Publish, EventType, Undone, Status
<1>4. CASE \E i \in 1..Len(topic) : Republish(topic[i])
  <2>1. PICK i \in 1..Len(topic) : Republish(topic[i])
    BY <1>4
  <2>2. topic[i].event \in Event
    BY <2>1 DEF Republish, EventsTypeOK, Message, EventMessage
  <2>3. QED
    BY <1>1, <2>1, <2>2 DEF Republish, Event
<1>5. CASE PublishGarbled
  BY <1>5 DEF PublishGarbled, Publishes, Message
<1>6. QED
  BY <1>2, <1>3, <1>4, <1>5

LEMMA StepKinds ==
    ASSUME EventsTypeOK, [Next]_vars
    PROVE  \/ Publishes \/ Unseen
           \/ \E g \in Group : Works(g) \/ HandlingFails(g) \/ Disconnect(g) \/ Crash(g)
           \/ Project \/ Text \/ Mail \/ LookupFails
<1>1. CASE UNCHANGED vars
  BY <1>1 DEF vars, Unseen
<1>2. CASE \E o \in Orders : \E s \in Status : Enter(o, s)
  BY <1>2 DEF Enter, Unseen
<1>3. CASE Next
  BY <1>2, <1>3, PublicationsPublish DEF Next
<1>4. QED
  BY <1>1, <1>3

\* A message that can be read has an event.
LEMMA WhatIsRead ==
    ASSUME EventsTypeOK, NEW i \in 1..Len(topic)
    PROVE  /\ EventAt(i) \in Event \cup {None} /\ None \notin Event
           /\ EventAt(i) = None <=> topic[i] = None
           /\ topic[i] # None =>
                 /\ topic[i].event = EventAt(i) /\ EventAt(i) \in Event
                 /\ EventAt(i).type \in Telling => topic[i].status \in Status
  BY GarbledIsNoEvent DEF EventAt, EventsTypeOK, Message, EventMessage

LEMMA AppendKeeps ==
    ASSUME EventsTypeOK, NEW m \in Message, Append1(m)
    PROVE  /\ topic' \in Seq(Message) /\ Len(topic') = Len(topic) + 1
           /\ Len(topic') <= MaxMessages
           /\ \A i \in 1..Len(topic) : topic'[i] = topic[i]
  BY BoundsAssumption DEF EventsTypeOK, Append1

-----------------------------------------------------------------------------
\* A message in hand is a message of the topic.
HandInv ==
    \A g \in Group :
        /\ loop[g] \in {"fetched", "texted", "handled"} => position[g] \in 1..Len(topic)
        /\ loop[g] = "texted" => EventAt(position[g]) \in Event

TypeInv == EventsTypeOK /\ HandInv

LEMMA TransactionType ==
    ASSUME EventsTypeOK, NEW i \in 1..Len(topic), topic[i] # None,
           Transaction(topic[i])
    PROVE  processed' \subseteq Event /\ projection' \in [Orders -> Status \cup {"absent"}]
<1> DEFINE m == topic[i]
<1>1. m.event \in Event /\ m.event.order \in Orders /\ m.event.type \in EventType
  BY WhatIsRead DEF Event
<1>2. m.event.type \in Telling => m.status \in Status
  BY WhatIsRead
<1>3. Row(projection, m) \in Status \cup {"absent"}
  BY <1>1, <1>2 DEF Row, EventsTypeOK, EventType, Status
<1>4. QED
  BY <1>1, <1>3 DEF Transaction, EventsTypeOK

LEMMA SeededIsNatural == Seeded \in [Counted -> Nat]
<1> SUFFICES ASSUME NEW c \in Counted
             PROVE  Cardinality({o \in Orders : IF c = "created" THEN projection[o] # "absent"
                                                              ELSE projection[o] = c}) \in Nat
  BY DEF Seeded
<1>1. IsFiniteSet({o \in Orders : IF c = "created" THEN projection[o] # "absent"
                                                  ELSE projection[o] = c})
  BY OrdersAreFinite, FS_Subset
<1>2. QED
  BY <1>1, FS_CardinalityType

LEMMA TypeStep ==
    ASSUME TypeInv, [Next]_vars
    PROVE  TypeInv'
<1> USE DEF TypeInv, EventsTypeOK, HandInv, InHand, Group, LoopState
<1> Len(topic) \in Nat
  OBVIOUS
<1>0. \A i \in 1..Len(topic) : topic[i] # None <=> EventAt(i) # None
  BY WhatIsRead
<1>1. CASE Unseen
  <2>1. row' \in [Orders -> Status \cup {"none"}]
    BY <1>1 DEF Unseen, Enter
  <2>2. QED
    BY <1>1, <2>1 DEF Unseen, EventAt, loopVars, analyticsVars, notificationVars
<1>2. CASE Publishes
  <2>1. PICK m \in Message : Append1(m)
    BY <1>2 DEF Publishes
  <2>2. /\ topic' \in Seq(Message) /\ Len(topic') = Len(topic) + 1
        /\ Len(topic') <= MaxMessages
        /\ \A i \in 1..Len(topic) : topic'[i] = topic[i]
    BY <2>1, AppendKeeps
  <2>3. \A i \in 1..Len(topic) : EventAt(i)' = EventAt(i)
    BY <2>2 DEF EventAt
  <2>4. QED
    BY <1>2, <2>2, <2>3 DEF Publishes, loopVars, analyticsVars, notificationVars
<1>3. ASSUME NEW g \in Group, Works(g) PROVE TypeInv'
  <2>1. CASE Connect(g)
    BY <2>1 DEF Connect, EventAt, analyticsVars, notificationVars
  <2>2. CASE Fetch(g)
    BY <2>2 DEF Fetch, EventAt, analyticsVars, notificationVars
  <2>3. CASE SetAside(g)
    BY <2>3 DEF SetAside, EventAt, analyticsVars, notificationVars
  <2>4. CASE Commit(g)
    BY <2>4 DEF Commit, EventAt, analyticsVars, notificationVars
  <2>5. QED
    BY <1>3, <2>1, <2>2, <2>3, <2>4 DEF Works
<1>4. CASE Project
  <2> DEFINE p == position["analytics"]
  <2>1. p \in 1..Len(topic) /\ topic[p] # None /\ topic[p].event \in Event
    BY <1>4, WhatIsRead DEF Project
  <2>2. processed' \subseteq Event /\ projection' \in [Orders -> Status \cup {"absent"}]
    BY <1>4, <2>1, TransactionType DEF Project
  <2>3. counters' \in [Counted -> Nat]
    BY <1>4 DEF Project, Advanced
  <2>4. QED
    BY <1>4, <2>2, <2>3 DEF Project, EventAt, notificationVars
<1>5. CASE Text
  <2>1. /\ topic[position["notification"]].event \in Event
        /\ EventAt(position["notification"]) \in Event
    BY <1>5, WhatIsRead DEF Text
  <2>2. texts' \in [Event -> Nat]
    BY <1>5, <2>1 DEF Text
  <2>3. QED
    BY <1>5, <2>1, <2>2 DEF Text, EventAt, analyticsVars
<1>6. CASE Mail
  <2>0. topic[position["notification"]].event \in Event
    BY <1>0, <1>6, WhatIsRead DEF Mail
  <2>1. mails' \in [Event -> Nat]
    BY <1>6, <2>0 DEF Mail
  <2>2. QED
    BY <1>6, <2>1 DEF Mail, EventAt, analyticsVars
<1>7. CASE LookupFails
  BY <1>7, BoundsAssumption DEF LookupFails, Fails, EventAt, analyticsVars, notificationVars
<1>8. ASSUME NEW g \in Group, HandlingFails(g) PROVE TypeInv'
  <2>1. position[g] \in 1..Len(topic) /\ topic[position[g]] # None
    BY <1>8 DEF HandlingFails
  <2>2. processed' \subseteq Event /\ projection' \in [Orders -> Status \cup {"absent"}]
    BY <1>8, <2>1, TransactionType DEF HandlingFails
  <2>3. QED
    BY <1>8, <2>2, BoundsAssumption DEF HandlingFails, Fails, EventAt, notificationVars
<1>9. ASSUME NEW g \in Group, Disconnect(g) PROVE TypeInv'
  BY <1>9, BoundsAssumption DEF Disconnect, Fails, EventAt, analyticsVars, notificationVars
<1>10. ASSUME NEW g \in Group, Crash(g) PROVE TypeInv'
  <2>1. Seeded \in [Counted -> Nat]
    BY SeededIsNatural
  <2> counters' \in [Counted -> Nat]
    BY <1>10, <2>1 DEF Crash
  <2>2. QED
    BY <1>10, <2>1, BoundsAssumption DEF Crash, Fails, EventAt, notificationVars
<1>11. QED
  BY <1>1, <1>2, <1>3, <1>4, <1>5, <1>6, <1>7, <1>8, <1>9, <1>10, StepKinds

LEMMA TypeInitially == Init => TypeInv
<1> SUFFICES ASSUME Init PROVE TypeInv
  OBVIOUS
<1>1. Len(topic) = 0 /\ topic \in Seq(Message)
  BY DEF Init
<1>2. QED
  BY <1>1, BoundsAssumption
     DEF Init, TypeInv, EventsTypeOK, HandInv, Group, LoopState, Counted, Event

\* Offsets stay within the topic, and rows, counters and tasks well-formed.
THEOREM EventsTypeCorrect == Spec => []EventsTypeOK
<1>1. Spec => []TypeInv
  BY TypeInitially, TypeStep, PTL DEF Spec
<1>2. TypeInv => EventsTypeOK
  BY DEF TypeInv
<1>3. QED
  BY <1>1, <1>2, PTL

-----------------------------------------------------------------------------
\* CommittedIsAccounted is not inductive: a commit moves the offset to the
\* position, so everything up to the position must be accounted for, but for
\* the message in hand; and a mail must not be sent for an untold event.
Accounted(g, i) == Done(g, i) \/ i \in passed[g]

OffsetsOf(g) ==
    /\ loop[g] \in {"idle", "handled"} => \A i \in 1..position[g] : Accounted(g, i)
    /\ loop[g] \in {"fetched", "texted"} =>
          \A i \in 1..position[g] : i # position[g] => Accounted(g, i)
    /\ loop[g] = "texted" =>
          /\ g = "notification" /\ InHand(g) # None
          /\ texts[InHand(g).event] > 0 /\ InHand(g).event.type = "confirmed"
    /\ \A i \in 1..committed[g] : Accounted(g, i)

OffsetInv == TypeInv /\ \A g \in Group : OffsetsOf(g)

\* What is published stays where it is.
LEMMA TopicGrows ==
    ASSUME EventsTypeOK, [Next]_vars
    PROVE  /\ \A i \in 1..Len(topic) : topic'[i] = topic[i] /\ i \in 1..Len(topic')
           /\ \A i \in 1..Len(topic) : EventAt(i)' = EventAt(i)
           /\ \A e : Published(e) => Published(e)'
<1>1. \A i \in 1..Len(topic) : topic'[i] = topic[i] /\ i \in 1..Len(topic')
  <2>1. CASE UNCHANGED topic
    BY <2>1
  <2>2. CASE Publishes
    <3>1. Len(topic) \in Nat
      BY DEF EventsTypeOK
    <3>2. QED
      BY <2>2, <3>1, AppendKeeps DEF Publishes
  <2>3. UNCHANGED topic \/ Publishes
    BY StepKinds
       DEF Unseen, Works, Connect, Fetch, SetAside, Commit, Project, Text, Mail, LookupFails,
           HandlingFails, Disconnect, Crash
  <2>4. QED
    BY <2>1, <2>2, <2>3
<1>2. \A i \in 1..Len(topic) : EventAt(i)' = EventAt(i)
  BY <1>1 DEF EventAt
<1>3. QED
  BY <1>1, <1>2 DEF Published

LEMMA AccountedStays ==
    ASSUME TypeInv, TypeInv', [Next]_vars, NEW g \in Group, NEW i \in 1..Len(topic),
           Accounted(g, i)
    PROVE  Accounted(g, i)'
<1> DEFINE e == EventAt(i)
<1>1. EventsTypeOK /\ (e # None => e \in Event) /\ EventAt(i)' = e
  BY WhatIsRead, TopicGrows DEF TypeInv
<1> HIDE DEF e
<1>2. Accounted(g, i) <=>
        \/ i \in passed[g] \/ i \in dlq[g]
        \/ /\ e # None
           /\ \/ g = "analytics" /\ e \in processed
              \/ /\ g = "notification"
                 /\ e.type \in Notifiable => texts[e] > 0
                 /\ e.type = "confirmed" => mails[e] > 0
  BY DEF Accounted, Done, e
<1>3. Accounted(g, i)' <=>
        \/ i \in passed'[g] \/ i \in dlq'[g]
        \/ /\ e # None
           /\ \/ g = "analytics" /\ e \in processed'
              \/ /\ g = "notification"
                 /\ e.type \in Notifiable => texts'[e] > 0
                 /\ e.type = "confirmed" => mails'[e] > 0
  BY <1>1 DEF Accounted, Done, e
<1>4. SUFFICES /\ passed[g] \subseteq passed'[g] /\ dlq[g] \subseteq dlq'[g]
               /\ processed \subseteq processed'
               /\ e \in Event => texts'[e] >= texts[e] /\ mails'[e] >= mails[e]
                                 /\ texts[e] \in Nat /\ mails[e] \in Nat
                                 /\ texts'[e] \in Nat /\ mails'[e] \in Nat
  BY <1>1, <1>2, <1>3
<1> USE DEF TypeInv, EventsTypeOK, Group
<1>5. CASE Publishes \/ Unseen
  BY <1>5 DEF Publishes, Unseen, analyticsVars, notificationVars
<1>6. CASE \E h \in Group : Works(h)
  BY <1>6 DEF Works, Connect, Fetch, SetAside, Commit, analyticsVars, notificationVars
<1>7. CASE Project
  BY <1>7 DEF Project, Transaction, notificationVars
<1>8. CASE Text
  BY <1>8 DEF Text, analyticsVars
<1>9. CASE Mail
  BY <1>9 DEF Mail, analyticsVars
<1>10. CASE LookupFails
  BY <1>10 DEF LookupFails, analyticsVars, notificationVars
<1>11. CASE \E h \in Group : HandlingFails(h)
  BY <1>11 DEF HandlingFails, Transaction, notificationVars
<1>12. CASE \E h \in Group : Disconnect(h) \/ Crash(h)
  BY <1>12 DEF Disconnect, Crash, analyticsVars, notificationVars
<1>13. QED
  BY <1>5, <1>6, <1>7, <1>8, <1>9, <1>10, <1>11, <1>12, StepKinds

LEMMA TextsGrow ==
    ASSUME TypeInv, [Next]_vars
    PROVE  \A e \in Event : texts'[e] >= texts[e]
<1>1. CASE Text
  BY <1>1 DEF Text, TypeInv, EventsTypeOK
<1>2. CASE UNCHANGED texts
  BY <1>2 DEF TypeInv, EventsTypeOK
<1>3. Text \/ UNCHANGED texts
  BY StepKinds
     DEF TypeInv, Publishes, Unseen, notificationVars, Works, Connect, Fetch, SetAside, Commit,
         Project, Mail, LookupFails, HandlingFails, Disconnect, Crash
<1>4. QED
  BY <1>1, <1>2, <1>3

\* A step that leaves a group's loop and offsets alone keeps what is said of it.
LEMMA OthersKeep ==
    ASSUME OffsetInv, [Next]_vars, NEW g \in Group,
           UNCHANGED <<loop[g], position[g], committed[g]>>
    PROVE  OffsetsOf(g)'
<1>1. TypeInv /\ TypeInv'
  BY TypeStep DEF OffsetInv
<1>2. \A i \in 1..Len(topic) : Accounted(g, i) => Accounted(g, i)'
  BY <1>1, AccountedStays
<1>3. committed[g] \in 0..Len(topic) /\ position[g] \in 0..Len(topic) /\ Len(topic) \in Nat
  BY <1>1 DEF TypeInv, EventsTypeOK
<1>4. ASSUME loop[g] = "texted"
      PROVE  InHand(g)' = InHand(g) /\ texts'[InHand(g).event] > 0
  <2>1. position[g] \in 1..Len(topic) /\ InHand(g) # None /\ InHand(g).event \in Event
    BY <1>1, <1>4, WhatIsRead DEF TypeInv, HandInv, InHand
  <2>2. topic'[position[g]] = topic[position[g]]
    BY <1>1, <2>1, TopicGrows DEF TypeInv
  <2>3. texts'[InHand(g).event] >= texts[InHand(g).event] /\ texts[InHand(g).event] > 0
    BY <1>1, <1>4, <2>1, TextsGrow DEF OffsetInv, OffsetsOf
  <2>4. texts[InHand(g).event] \in Nat /\ texts'[InHand(g).event] \in Nat
    BY <1>1, <2>1 DEF TypeInv, EventsTypeOK
  <2>5. QED
    BY <2>2, <2>3, <2>4 DEF InHand
<1>5. QED
  BY <1>2, <1>3, <1>4 DEF OffsetInv, OffsetsOf

LEMMA OffsetStep ==
    ASSUME OffsetInv, [Next]_vars
    PROVE  OffsetInv'
<1>1. TypeInv /\ TypeInv'
  BY TypeStep DEF OffsetInv
<1>2. \A g \in Group : \A i \in 1..Len(topic) : Accounted(g, i) => Accounted(g, i)'
  BY <1>1, AccountedStays
<1>3. \A g \in Group : /\ committed[g] \in 0..Len(topic) /\ position[g] \in 0..Len(topic)
                       /\ Len(topic) \in Nat
  BY <1>1 DEF TypeInv, EventsTypeOK
<1> SUFFICES ASSUME NEW g \in Group PROVE OffsetsOf(g)'
  BY <1>1 DEF OffsetInv
<1> OffsetsOf(g)
  BY DEF OffsetInv
<1>0. ASSUME loop[g] \in {"fetched", "texted", "handled"}
      PROVE  /\ position[g] \in 1..Len(topic) /\ InHand(g) = topic[position[g]]
             /\ InHand(g) # None <=> EventAt(position[g]) # None
             /\ InHand(g) # None => InHand(g).event = EventAt(position[g]) /\ InHand(g).event \in Event
             /\ position'[g] = position[g] => EventAt(position[g])' = EventAt(position[g])
  <2>1. position[g] \in 1..Len(topic) /\ EventsTypeOK
    BY <1>0, <1>1 DEF TypeInv, HandInv
  <2>2. topic'[position[g]] = topic[position[g]]
    BY <2>1, TopicGrows
  <2>3. QED
    BY <2>1, <2>2, WhatIsRead DEF InHand, EventAt
<1>4. CASE UNCHANGED <<loop[g], position[g], committed[g]>>
  BY <1>4, OthersKeep
<1>5. CASE Connect(g)
  <2>1. loop'[g] = "idle" /\ position'[g] = committed[g] /\ committed'[g] = committed[g]
    BY <1>1, <1>5 DEF Connect, TypeInv, EventsTypeOK
  <2>2. \A i \in 1..committed[g] : Accounted(g, i)'
    BY <1>2, <1>3 DEF OffsetsOf
  <2>3. QED
    BY <2>1, <2>2 DEF OffsetsOf
<1>6. CASE Fetch(g)
  <2>1. loop'[g] = "fetched" /\ position'[g] = position[g] + 1 /\ committed'[g] = committed[g]
    BY <1>1, <1>6 DEF Fetch, TypeInv, EventsTypeOK
  <2>2. \A i \in 1..position[g] : Accounted(g, i)'
    BY <1>2, <1>3, <1>6 DEF Fetch, OffsetsOf
  <2>3. \A i \in 1..committed[g] : Accounted(g, i)'
    BY <1>2, <1>3 DEF OffsetsOf
  <2>4. \A i \in 1..(position[g] + 1) : i # position[g] + 1 => i \in 1..position[g]
    BY <1>3
  <2>5. \A i \in 1..position'[g] : i # position'[g] => Accounted(g, i)'
    BY <2>1, <2>2, <2>4
  <2>6. QED
    BY <2>1, <2>3, <2>5 DEF OffsetsOf
<1>7. CASE Commit(g)
  <2>1. loop'[g] = "idle" /\ position'[g] = position[g] /\ committed'[g] = position[g]
    BY <1>1, <1>7 DEF Commit, TypeInv, EventsTypeOK
  <2>2. \A i \in 1..position[g] : Accounted(g, i)'
    BY <1>2, <1>3, <1>7 DEF Commit, OffsetsOf
  <2>3. QED
    BY <2>1, <2>2 DEF OffsetsOf
\* What has been handled is accounted for: dead-lettered, projected, told, or
\* passed over.
<1>8. ASSUME loop[g] \in {"fetched", "texted"}, loop'[g] \in {"idle", "handled"},
             UNCHANGED <<position[g], committed[g]>>, Accounted(g, position[g])'
      PROVE  OffsetsOf(g)'
  BY <1>2, <1>3, <1>8 DEF OffsetsOf
<1>9. CASE SetAside(g)
  <2>1. Accounted(g, position[g])'
    BY <1>0, <1>1, <1>9
       DEF SetAside, Accounted, Done, TypeInv, EventsTypeOK, Group, Notifiable
  <2>2. QED
    BY <1>1, <1>8, <1>9, <2>1 DEF SetAside, TypeInv, EventsTypeOK
<1>10. CASE Project /\ g = "analytics"
  <2>1. Accounted(g, position[g])'
    BY <1>0, <1>1, <1>10 DEF Project, Transaction, Accounted, Done, TypeInv, EventsTypeOK
  <2>2. QED
    BY <1>1, <1>8, <1>10, <2>1 DEF Project, TypeInv, EventsTypeOK
<1>11. CASE Text /\ g = "notification"
  <2> DEFINE e == InHand(g).event
  <2>1. /\ e \in Event /\ e = EventAt(position[g]) /\ EventAt(position[g])' = e /\ e # None
        /\ InHand(g) # None /\ InHand(g)' = InHand(g)
    BY <1>0, <1>11, GarbledIsNoEvent DEF Text, InHand
  <2>2. /\ texts'[e] > 0
        /\ loop'[g] = IF e.type = "confirmed" THEN "texted" ELSE "handled"
        /\ UNCHANGED <<position[g], committed[g]>>
    BY <1>1, <1>11, <2>1 DEF Text, TypeInv, EventsTypeOK
  <2>3. CASE e.type = "confirmed"
    <3>1. /\ loop'[g] = "texted" /\ InHand(g)' # None
          /\ texts'[InHand(g)'.event] > 0 /\ InHand(g)'.event.type = "confirmed"
      BY <2>1, <2>2, <2>3
    <3>2. \A k \in 1..position[g] : k # position[g] => Accounted(g, k)'
      BY <1>2, <1>3, <1>11 DEF Text, OffsetsOf
    <3>3. \A k \in 1..committed[g] : Accounted(g, k)'
      BY <1>2, <1>3 DEF OffsetsOf
    <3>4. QED
      BY <1>11, <2>2, <3>1, <3>2, <3>3 DEF OffsetsOf
  <2>4. CASE e.type # "confirmed"
    <3>1. Accounted(g, position[g])'
      BY <1>11, <2>1, <2>2, <2>4 DEF Accounted, Done
    <3>2. loop[g] = "fetched" /\ loop'[g] = "handled"
      BY <1>11, <2>2, <2>4 DEF Text
    <3>3. QED
      BY <1>8, <2>2, <3>1, <3>2
  <2>5. QED
    BY <2>3, <2>4
<1>12. CASE Mail /\ g = "notification"
  <2> DEFINE e == InHand(g).event
  <2>1. /\ loop[g] = "texted" /\ loop'[g] = "handled" /\ texts' = texts
        /\ UNCHANGED <<position[g], committed[g]>>
    BY <1>1, <1>12 DEF Mail, TypeInv, EventsTypeOK
  <2>2. /\ e \in Event /\ e = EventAt(position[g]) /\ EventAt(position[g])' = e /\ e # None
        /\ texts[e] > 0
    BY <1>0, <2>1, GarbledIsNoEvent DEF OffsetsOf
  <2>3. mails'[e] > 0
    BY <1>1, <1>12, <2>2 DEF Mail, TypeInv, EventsTypeOK
  <2>4. Accounted(g, position[g])'
    BY <1>12, <2>1, <2>2, <2>3 DEF Accounted, Done
  <2>5. QED
    BY <1>8, <2>1, <2>4
<1>13. CASE LookupFails /\ g = "notification"
  <2>1. Accounted(g, position[g])'
    BY <1>1, <1>13 DEF LookupFails, Accounted, TypeInv, EventsTypeOK
  <2>2. QED
    BY <1>1, <1>8, <1>13, <2>1 DEF LookupFails, TypeInv, EventsTypeOK
<1>14. CASE HandlingFails(g)
  <2>1. Accounted(g, position[g])'
    BY <1>1, <1>14 DEF HandlingFails, Accounted, TypeInv, EventsTypeOK
  <2>2. QED
    BY <1>1, <1>8, <1>14, <2>1 DEF HandlingFails, TypeInv, EventsTypeOK
<1>15. CASE Disconnect(g) \/ Crash(g)
  BY <1>1, <1>2, <1>3, <1>15 DEF Disconnect, Crash, OffsetsOf, TypeInv, EventsTypeOK
<1>16. \/ UNCHANGED <<loop[g], position[g], committed[g]>>
       \/ Works(g) \/ HandlingFails(g) \/ Disconnect(g) \/ Crash(g)
       \/ (Project /\ g = "analytics") \/ ((Text \/ Mail \/ LookupFails) /\ g = "notification")
  <2>1. ASSUME NEW h \in Group, h # g,
               Works(h) \/ HandlingFails(h) \/ Disconnect(h) \/ Crash(h)
        PROVE  UNCHANGED <<loop[g], position[g], committed[g]>>
    BY <1>1, <2>1 DEF Works, Connect, Fetch, SetAside, Commit, HandlingFails, Disconnect, Crash,
                      TypeInv, EventsTypeOK
  <2>2. CASE Project \/ Text \/ Mail \/ LookupFails
    BY <1>1, <2>2 DEF Project, Text, Mail, LookupFails, TypeInv, EventsTypeOK, Group
  <2>3. CASE Publishes \/ Unseen
    BY <2>3 DEF Publishes, Unseen, loopVars
  <2>4. QED
    BY <1>1, <2>1, <2>2, <2>3, StepKinds DEF TypeInv
<1>17. QED
  BY <1>4, <1>5, <1>6, <1>7, <1>9, <1>10, <1>11, <1>12, <1>13, <1>14, <1>15, <1>16 DEF Works

LEMMA OffsetInitially == Init => OffsetInv
  BY TypeInitially DEF Init, OffsetInv, OffsetsOf

\* Nothing is committed that was not applied or told, dead-lettered, or passed
\* over for an error of its own, whatever crashes and reconnections there are.
THEOREM OffsetsTellTheTruth == Spec => []CommittedIsAccounted
<1>1. Spec => []OffsetInv
  BY OffsetInitially, OffsetStep, PTL DEF Spec
<1>2. OffsetInv => CommittedIsAccounted
  BY DEF OffsetInv, OffsetsOf, CommittedIsAccounted, Accounted
<1>3. QED
  BY <1>1, <1>2, PTL

\* Only what nobody can read is dead-lettered.
DeadLettersAreGarbled == \A g \in Group : \A i \in dlq[g] : topic[i] = None

LEMMA DeadLettersStep ==
    ASSUME TypeInv, DeadLettersAreGarbled, [Next]_vars
    PROVE  DeadLettersAreGarbled'
<1>1. dlq \in [Group -> SUBSET (1..Len(topic))]
  BY DEF TypeInv, EventsTypeOK
<1>2. CASE UNCHANGED dlq
  <2>1. \A i \in 1..Len(topic) : topic'[i] = topic[i]
    BY TopicGrows DEF TypeInv
  <2>2. \A g \in Group : dlq'[g] = dlq[g] /\ dlq[g] \subseteq 1..Len(topic)
    BY <1>1, <1>2
  <2>3. QED
    BY <2>1, <2>2 DEF DeadLettersAreGarbled
<1>3. ASSUME NEW g \in Group, SetAside(g) PROVE DeadLettersAreGarbled'
  <2>1. /\ topic' = topic /\ \A h \in Group \ {g} : dlq'[h] = dlq[h]
        /\ \/ topic[position[g]] = None /\ dlq'[g] = dlq[g] \cup {position[g]}
           \/ dlq'[g] = dlq[g]
    BY <1>1, <1>3 DEF SetAside, InHand
  <2>2. QED
    BY <2>1 DEF DeadLettersAreGarbled
<1>4. UNCHANGED dlq \/ \E g \in Group : SetAside(g)
  BY StepKinds
     DEF TypeInv, Publishes, Unseen, Works, Connect, Fetch, Commit, Project, Text, Mail,
         LookupFails, HandlingFails, Disconnect, Crash
<1>5. QED
  BY <1>2, <1>3, <1>4

\* What can be said of an event whose offset is committed: unless some message met
\* an error the consumer logs and goes past, it has been applied.  A crash, a Kafka
\* error or a redelivery never loses one.
THEOREM WhatIsCommittedWasApplied ==
    Spec => [](passed["analytics"] = {} => AppliedBeforeCommitted)
<1>1. Init => DeadLettersAreGarbled
  BY DEF Init, DeadLettersAreGarbled
<1>2. Spec => [](OffsetInv /\ DeadLettersAreGarbled)
  <2>1. OffsetInv => TypeInv
    BY DEF OffsetInv
  <2>2. QED
    BY <1>1, <2>1, OffsetInitially, OffsetStep, DeadLettersStep, PTL DEF Spec
<1>3. ASSUME OffsetInv, DeadLettersAreGarbled, passed["analytics"] = {},
             NEW i \in 1..committed["analytics"], EventAt(i) # None
      PROVE  EventAt(i) \in processed
  <2>1. "analytics" \in Group /\ i \in 1..Len(topic) /\ topic[i] # None
    BY <1>3, WhatIsRead DEF Group, OffsetInv, TypeInv, EventsTypeOK
  <2>2. Accounted("analytics", i)
    BY <1>3, <2>1 DEF OffsetInv, OffsetsOf
  <2>3. QED
    BY <1>3, <2>1, <2>2 DEF Accounted, Done, DeadLettersAreGarbled
<1>4. OffsetInv /\ DeadLettersAreGarbled => (passed["analytics"] = {} => AppliedBeforeCommitted)
  BY <1>3 DEF AppliedBeforeCommitted
<1>5. QED
  BY <1>2, <1>4, PTL

-----------------------------------------------------------------------------
(* The analytics consumer's table and counters.                            *)

Step(o, s) == [order |-> o, type |-> s]
IdOf(m) == IF m = None THEN None ELSE m.event

LEMMA RanksSpeltOut ==
    /\ "none" \notin Status /\ "absent" \notin Status
    /\ Status \subseteq EventType /\ "kitchen.decided" \notin Status
    /\ DOMAIN Then = Status \cup {"none"}
    /\ \A l \in Status \cup {"none", "absent"} : LifeRank[l] \in 0..5
    /\ \A s \in Status : LifeRank[s] > 0
    /\ LifeRank["absent"] = 0 /\ LifeRank["none"] = 0
    /\ \A l \in Status \cup {"none"} : \A s \in Then[l] : s \in Status /\ LifeRank[l] < LifeRank[s]
    /\ \A l, k \in Status \cup {"none"} : LifeRank[l] = LifeRank[k] /\ LifeRank[l] < 5 => l = k
    /\ \A l \in Status : LifeRank[l] = 5 => Then[l] = {}
    /\ Then["none"] = {"created"} /\ "created" \in Status /\ LifeRank["created"] = 1
    /\ \A c \in Counted \ {"created"} : c \in Status /\ LifeRank[c] = 5
    /\ \A s \in Status : s # "created" => LifeRank[s] > 1
    /\ Undone \subseteq Status /\ "compensation_failed" \in Undone
    /\ \A s \in Undone : LifeRank[s] = 5
    /\ Telling \subseteq Status /\ "created" \notin Telling
  BY DEF LifeRank, Status, EventType, Then, Counted, Undone, Telling

LEMMA StepsAreEvents ==
    ASSUME NEW o \in Orders, NEW s \in Status
    PROVE  /\ Step(o, s) \in Event /\ Step(o, s) # None
           /\ Step(o, s).order = o /\ Step(o, s).type = s
           /\ HasStatus(o, s) = Published(Step(o, s))
<1>1. Step(o, s) \in Event
  BY RanksSpeltOut DEF Step, Event
<1>2. HasStatus(o, s) = Published(Step(o, s))
  BY RanksSpeltOut DEF HasStatus, Step
<1>3. QED
  BY <1>1, <1>2, GarbledIsNoEvent DEF Step

\* Statuses of an order are published in their order, none is left out and at
\* most one ends it.
TopicInv ==
    /\ \A o \in Orders : \A t \in Status, l \in Status \cup {"none"} :
          HasStatus(o, t) /\ HasStatus(o, l) /\ LifeRank[l] < LifeRank[t]
             => \E n \in Then[l] : HasStatus(o, n)
    /\ \A o \in Orders : \A t, u \in Status :
          HasStatus(o, t) /\ HasStatus(o, u) /\ LifeRank[t] = LifeRank[u] => t = u
    /\ \A o \in Orders : \A t, u \in Status : \A i \in 1..Len(topic) :
          EventAt(i) = Step(o, t) /\ HasStatus(o, u) /\ LifeRank[u] < LifeRank[t]
             => \E j \in 1..(i - 1) : EventAt(j) = Step(o, u)

\* An event's first message tells the status the event is named for; but one of an
\* order whose compensation failed tells how the order was undone.
ToldInv ==
    \A i \in 1..Len(topic) : topic[i] # None =>
        LET m == topic[i]
            o == m.event.order
            s == m.event.type
        IN  /\ s = "compensation_failed" => m.status = row[o] /\ row[o] \in Undone
            /\ /\ s \in Telling \ {"compensation_failed"}
               /\ \A j \in 1..(i - 1) : EventAt(j) # EventAt(i)
               => m.status = s

LEMMA NewIsHighest ==
    ASSUME TopicInv, NEW o \in Orders, NEW last \in Status \cup {"none"}, IsLatest(o, last),
           NEW s \in Then[last]
    PROVE  /\ s \in Status /\ ~HasStatus(o, s) /\ LifeRank[last] < LifeRank[s]
           /\ \A u \in Status : HasStatus(o, u) => LifeRank[u] <= LifeRank[last]
<1>1. HasStatus(o, last) /\ \A n \in Then[last] : ~HasStatus(o, n)
  BY DEF IsLatest
<1>2. \A u \in Status : HasStatus(o, u) => ~(LifeRank[last] < LifeRank[u])
  BY <1>1 DEF TopicInv
<1>3. QED
  BY <1>1, <1>2, RanksSpeltOut

\* A publication publishes a status that is new, or none.
LEMMA WhatIsPublished ==
    ASSUME EventsTypeOK, NEW m \in Message, Append1(m)
    PROVE  /\ \A e : Published(e)' <=> Published(e) \/ e = IdOf(m)
           /\ topic'[Len(topic) + 1] = m
           /\ \A i : i = Len(topic) + 1 => EventAt(i)' = IdOf(m)
           /\ \A i \in 1..Len(topic) : EventAt(i)' = EventAt(i)
<1>1. /\ topic' = Append(topic, m) /\ topic \in Seq(Message)
      /\ Len(topic') = Len(topic) + 1 /\ Len(topic) \in Nat
      /\ \A i \in 1..Len(topic) : topic'[i] = topic[i]
      /\ topic'[Len(topic) + 1] = m
  BY DEF EventsTypeOK, Append1
<1>2. /\ \A i \in 1..Len(topic) : EventAt(i)' = EventAt(i)
      /\ \A i : i = Len(topic) + 1 => EventAt(i)' = IdOf(m)
  BY <1>1 DEF EventAt, IdOf
<1>3. \A i \in 1..Len(topic') : i \in 1..Len(topic) \/ i = Len(topic) + 1
  BY <1>1
<1>4. QED
  BY <1>1, <1>2, <1>3 DEF Published

\* What a message about to be published is.
Fresh(m) ==
    \E o \in Orders : \E last \in Status \cup {"none"} : \E s \in Then[last] :
        /\ IsLatest(o, last) /\ m.event = Step(o, s)
        /\ s = "compensation_failed" => m.status = row[o] /\ row[o] \in Undone
        /\ s \in Telling \ {"compensation_failed"} => m.status = s

Again(m) ==
    /\ Published(m.event)
    /\ m.event.type = "compensation_failed" =>
          m.status = row[m.event.order] /\ row[m.event.order] \in Undone

LEMMA PublicationKinds ==
    ASSUME EventsTypeOK, TopicInv, ToldInv,
           \/ \E o \in Orders : PublishDecision(o) \/ \E s \in Status : Publish(o, s)
           \/ \E i \in 1..Len(topic) : Republish(topic[i])
           \/ PublishGarbled
    PROVE  \E m \in Message :
              /\ Append1(m) /\ row' = row
              /\ \/ m = None
                 \/ m \in EventMessage /\ m.event.type = "kitchen.decided"
                 \/ m \in EventMessage /\ Again(m)
                 \/ m \in EventMessage /\ Fresh(m)
<1> DEFINE Told(o, type, s) == [event |-> [order |-> o, type |-> type],
                                status |-> IF type \in Telling THEN s ELSE "none"]
<1>1. ASSUME NEW o \in Orders, NEW type \in EventType, NEW s, s \in Status \/ type \notin Telling
      PROVE  /\ Told(o, type, s) \in EventMessage /\ Told(o, type, s) \in Message
             /\ Told(o, type, s).event = [order |-> o, type |-> type]
             /\ type \in Telling => Told(o, type, s).status = s
  BY <1>1 DEF EventMessage, Message, Event, Status
<1>2. ASSUME NEW o, NEW type, NEW s, Sends(o, type, s)
      PROVE  Append1(Told(o, type, s)) /\ row' = row
  BY <1>2 DEF Sends
<1> HIDE DEF Told
<1>3. ASSUME NEW o \in Orders, PublishDecision(o)
      PROVE  LET m == Told(o, "kitchen.decided", "none")
             IN  /\ m \in EventMessage /\ m \in Message /\ Append1(m) /\ row' = row
                 /\ m.event.type = "kitchen.decided"
  <2> DEFINE m == Told(o, "kitchen.decided", "none")
  <2>1. "kitchen.decided" \in EventType /\ "kitchen.decided" \notin Telling
    BY DEF EventType, Telling
  <2>2. Sends(o, "kitchen.decided", "none")
    BY <1>3, Zenon DEF PublishDecision
  <2>3. Append1(m) /\ row' = row
    BY <1>2, <2>2
  <2>4. /\ m \in EventMessage /\ m \in Message
        /\ m.event = [order |-> o, type |-> "kitchen.decided"]
    BY <1>1, <2>1, Zenon
  <2>5. QED
    BY <2>3, <2>4
<1>4. ASSUME NEW o \in Orders, NEW s \in Status, Publish(o, s)
      PROVE  LET m == Told(o, s, row[o])
             IN  m \in EventMessage /\ m \in Message /\ Append1(m) /\ row' = row /\ Fresh(m)
  <2> DEFINE m == Told(o, s, row[o])
  <2>1. PICK last \in Status \cup {"none"} : s \in Then[last] /\ IsLatest(o, last)
    BY <1>4, RanksSpeltOut DEF Publish
  <2>2. row[o] \in Status /\ (row[o] = s \/ (row[o] \in Undone /\ s \in Undone))
    BY <1>4, RanksSpeltOut DEF Publish
  <2>3. /\ m \in EventMessage /\ m \in Message /\ m.event = Step(o, s)
        /\ s \in Telling => m.status = row[o]
    BY <1>1, <2>2, RanksSpeltOut DEF Step
  <2>4. s = "compensation_failed" => s \in Telling /\ row[o] \in Undone
    BY <2>2, RanksSpeltOut DEF Telling
  <2>5. s \in Telling \ {"compensation_failed"} => s \notin Undone
    BY DEF Telling, Undone
  <2>6. Fresh(m)
    BY <2>1, <2>2, <2>3, <2>4, <2>5 DEF Fresh
  <2>7. Append1(m) /\ row' = row
    BY <1>2, <1>4 DEF Publish
  <2>8. QED
    BY <2>3, <2>6, <2>7
<1>5. ASSUME NEW i \in 1..Len(topic), Republish(topic[i])
      PROVE  \E m \in EventMessage : m \in Message /\ Append1(m) /\ row' = row /\ Again(m)
  <2> DEFINE e == topic[i].event
             o == e.order
  <2>1. /\ topic[i] # None /\ e = EventAt(i) /\ e \in Event
        /\ o \in Orders /\ e.type \in EventType /\ e = [order |-> o, type |-> e.type]
    BY <1>5, WhatIsRead DEF Republish, Event
  <2>2. PICK s \in Status :
              /\ s = row[o] \/ (HasStatus(o, s) /\ s \notin Undone)
              /\ LifeRank[s] >= LifeRank[topic[i].status]
              /\ Sends(o, e.type, s)
    BY <1>5 DEF Republish
  <2>3. Published(e)
    BY <2>1 DEF Published
  <2>4. ASSUME e.type = "compensation_failed"
        PROVE  s = row[o] /\ row[o] \in Undone
    <3>1. topic[i].status = row[o] /\ row[o] \in Undone
      BY <2>1, <2>4 DEF ToldInv
    <3>2. LifeRank[s] = 5
      BY <2>2, <3>1, RanksSpeltOut
    <3>3. HasStatus(o, "compensation_failed")
      BY <2>1, <2>3, <2>4, RanksSpeltOut, StepsAreEvents DEF Step
    <3>4. HasStatus(o, s) => s = "compensation_failed"
      BY <2>1, <3>2, <3>3, RanksSpeltOut DEF TopicInv
    <3>5. QED
      BY <2>2, <3>1, <3>4, RanksSpeltOut
  <2>5. Append1(Told(o, e.type, s)) /\ row' = row
    BY <1>2, <2>2
  <2>6. /\ Told(o, e.type, s) \in EventMessage /\ Told(o, e.type, s) \in Message
        /\ Told(o, e.type, s).event = e
        /\ e.type \in Telling => Told(o, e.type, s).status = s
    BY <1>1, <2>1
  <2>7. Again(Told(o, e.type, s))
    BY <2>3, <2>4, <2>6 DEF Again, Telling
  <2>8. QED
    BY <2>5, <2>6, <2>7
<1>6. ASSUME PublishGarbled PROVE None \in Message /\ Append1(None) /\ row' = row
  BY <1>6 DEF PublishGarbled, Message
<1>7. QED
  BY <1>3, <1>4, <1>5, <1>6

LEMMA TopicStep ==
    ASSUME EventsTypeOK, TopicInv, ToldInv, [Next]_vars
    PROVE  TopicInv'
<1>1. CASE UNCHANGED topic
  <2>1. /\ \A e : Published(e)' <=> Published(e)
        /\ \A i \in 1..Len(topic) : EventAt(i)' = EventAt(i)
    BY <1>1 DEF Published, EventAt
  <2>2. \A o \in Orders : \A l \in Status \cup {"none"} : HasStatus(o, l)' <=> HasStatus(o, l)
    BY <2>1 DEF HasStatus
  <2>3. QED
    BY <1>1, <2>1, <2>2, RanksSpeltOut DEF TopicInv, EventAt
<1>2. ASSUME NEW m \in Message, Append1(m),
             \/ m = None
             \/ m \in EventMessage /\ m.event.type = "kitchen.decided"
             \/ m \in EventMessage /\ Again(m)
             \/ m \in EventMessage /\ Fresh(m)
      PROVE  TopicInv'
  <2>1. /\ \A e : Published(e)' <=> Published(e) \/ e = IdOf(m)
        /\ \A i : i = Len(topic) + 1 => EventAt(i)' = IdOf(m)
    BY <1>2, WhatIsPublished
  <2>2. /\ topic' \in Seq(Message) /\ Len(topic') = Len(topic) + 1
        /\ \A i \in 1..Len(topic) : EventAt(i)' = EventAt(i)
    BY <1>2, AppendKeeps, WhatIsPublished
  <2>3. topic \in Seq(Message) /\ Len(topic) \in Nat
    BY DEF EventsTypeOK
  <2>4. \A i \in 1..Len(topic') : i \in 1..Len(topic) \/ (i = Len(topic) + 1 /\ EventAt(i)' = IdOf(m))
    BY <2>1, <2>2, <2>3
  \* Whatever is published stands somewhere before the topic's new end.
  <2>5. \A o \in Orders : \A u \in Status : HasStatus(o, u) =>
           \E j \in 1..Len(topic) : EventAt(j)' = Step(o, u)
    <3>1. ASSUME NEW o \in Orders, NEW u \in Status, HasStatus(o, u)
          PROVE  \E j \in 1..Len(topic) : EventAt(j) = Step(o, u)
      <4>1. Published(Step(o, u))
        BY <3>1, StepsAreEvents
      <4>2. QED
        BY <4>1 DEF Published
    <3>2. QED
      BY <2>2, <3>1
  <2>6. CASE \A o \in Orders : \A s \in Status : HasStatus(o, s)' <=> HasStatus(o, s)
    <3>1. ASSUME NEW o \in Orders, NEW t \in Status, NEW u \in Status,
                 NEW i \in 1..Len(topic'), EventAt(i)' = Step(o, t), HasStatus(o, u),
                 LifeRank[u] < LifeRank[t]
          PROVE  \E j \in 1..(i - 1) : EventAt(j)' = Step(o, u)
      <4>1. CASE i \in 1..Len(topic)
        <5>1. PICK j \in 1..(i - 1) : EventAt(j) = Step(o, u)
          BY <2>2, <3>1, <4>1 DEF TopicInv
        <5>2. j \in 1..Len(topic)
          BY <2>3, <4>1
        <5>3. QED
          BY <2>2, <5>1, <5>2
      <4>2. CASE i = Len(topic) + 1
        BY <2>3, <2>5, <3>1, <4>2
      <4>3. QED
        BY <2>4, <4>1, <4>2
    <3>2. \A o \in Orders : \A l \in Status \cup {"none"} : HasStatus(o, l)' <=> HasStatus(o, l)
      BY <2>6 DEF HasStatus
    <3>3. QED
      BY <2>6, <3>1, <3>2, RanksSpeltOut DEF TopicInv
  <2>7. ASSUME NEW p \in Orders, NEW last \in Status \cup {"none"}, NEW s \in Then[last],
               IsLatest(p, last), IdOf(m) = Step(p, s)
        PROVE  TopicInv'
    <3>1. /\ s \in Status /\ ~HasStatus(p, s) /\ LifeRank[last] < LifeRank[s]
          /\ \A u \in Status : HasStatus(p, u) => LifeRank[u] <= LifeRank[last]
      BY <2>7, NewIsHighest
    <3>2. \A o \in Orders : \A u \in Status :
             HasStatus(o, u)' <=> HasStatus(o, u) \/ (o = p /\ u = s)
      <4>1. \A o \in Orders : \A u \in Status :
               /\ HasStatus(o, u) <=> Published(Step(o, u))
               /\ HasStatus(o, u)' <=> Published(Step(o, u))'
               /\ Step(o, u) = Step(p, s) <=> o = p /\ u = s
        BY <3>1, RanksSpeltOut, StepsAreEvents DEF HasStatus, Step
      <4>2. QED
        BY <2>1, <2>7, <4>1
    <3>3. \A o \in Orders : HasStatus(o, "none") /\ HasStatus(o, "none")'
      BY DEF HasStatus
    <3>4. \A k, l \in Status \cup {"none"} : LifeRank[k] \in 0..5 /\ LifeRank[l] \in 0..5
      BY RanksSpeltOut
    <3>5. ASSUME NEW o \in Orders, NEW t \in Status, NEW l \in Status \cup {"none"},
                 HasStatus(o, t)', HasStatus(o, l)', LifeRank[l] < LifeRank[t]
          PROVE  \E n \in Then[l] : HasStatus(o, n)'
      <4>1. \A n \in Then[l] : n \in Status
        BY RanksSpeltOut
      <4>2. CASE o # p \/ (t # s /\ l # s)
        <5>1. HasStatus(o, t) /\ HasStatus(o, l)
          BY <3>2, <3>3, <3>5, <4>2
        <5>2. PICK n \in Then[l] : HasStatus(o, n)
          BY <3>5, <5>1 DEF TopicInv
        <5>3. QED
          BY <3>2, <4>1, <5>2
      <4>3. CASE o = p /\ t = s /\ l = last
        BY <3>1, <3>2, <4>3
      <4>4. CASE o = p /\ t = s /\ l # last
        <5>1. HasStatus(p, l) /\ HasStatus(p, last)
          <6>1. HasStatus(p, last) /\ l # s
            BY <2>7, <3>4, <3>5, <4>4 DEF IsLatest
          <6>2. l \in Status => HasStatus(p, l)
            BY <3>2, <3>5, <4>4, <6>1
          <6>3. QED
            BY <3>3, <6>1, <6>2
        <5>2. LifeRank[l] <= LifeRank[last]
          BY <3>1, <3>3, <3>4, <5>1, RanksSpeltOut
        <5>3. LifeRank[l] # LifeRank[last]
          <6>1. LifeRank[last] < 5
            BY <2>7, <3>1, <3>4
          <6>2. QED
            BY <4>4, <6>1, RanksSpeltOut
        <5>4. LifeRank[l] < LifeRank[last] /\ last \in Status
          BY <3>4, <5>2, <5>3, RanksSpeltOut
        <5>5. PICK n \in Then[l] : HasStatus(p, n)
          BY <5>1, <5>4 DEF TopicInv
        <5>6. QED
          BY <3>2, <4>1, <4>4, <5>5
      <4>5. CASE o = p /\ t # s /\ l = s
        <5>1. HasStatus(p, t)
          BY <3>2, <3>5, <4>5
        <5>2. QED
          BY <3>1, <3>4, <3>5, <4>5, <5>1
      <4>6. QED
        BY <3>4, <3>5, <4>2, <4>3, <4>4, <4>5
    <3>6. ASSUME NEW o \in Orders, NEW t \in Status, NEW u \in Status,
                 HasStatus(o, t)', HasStatus(o, u)', LifeRank[t] = LifeRank[u]
          PROVE  t = u
      <4>1. CASE HasStatus(o, t) /\ HasStatus(o, u)
        BY <3>6, <4>1 DEF TopicInv
      <4>2. QED
        BY <3>1, <3>2, <3>4, <3>6, <4>1
    <3>7. ASSUME NEW o \in Orders, NEW t \in Status, NEW u \in Status, NEW i \in 1..Len(topic'),
                 EventAt(i)' = Step(o, t), HasStatus(o, u)', LifeRank[u] < LifeRank[t]
          PROVE  \E j \in 1..(i - 1) : EventAt(j)' = Step(o, u)
      <4>1. CASE i \in 1..Len(topic)
        <5>1. EventAt(i) = Step(o, t) /\ HasStatus(o, t)
          <6>1. EventAt(i) = Step(o, t)
            BY <2>2, <3>7, <4>1
          <6>2. Published(Step(o, t))
            BY <4>1, <6>1 DEF Published
          <6>3. QED
            BY <6>1, <6>2, StepsAreEvents
        <5>2. HasStatus(o, u)
          BY <3>1, <3>2, <3>4, <3>7, <5>1
        <5>3. PICK j \in 1..(i - 1) : EventAt(j) = Step(o, u)
          BY <3>7, <4>1, <5>1, <5>2 DEF TopicInv
        <5>4. j \in 1..Len(topic)
          BY <2>3, <4>1
        <5>5. QED
          BY <2>2, <5>3, <5>4
      <4>2. CASE i = Len(topic) + 1
        <5>1. o = p /\ t = s
          BY <2>1, <2>7, <3>7, <4>2 DEF Step
        <5>2. HasStatus(o, u)
          BY <3>2, <3>4, <3>7, <5>1
        <5>3. QED
          BY <2>3, <2>5, <4>2, <5>2
      <4>3. QED
        BY <2>4, <4>1, <4>2
    <3>8. QED
      BY <3>5, <3>6, <3>7 DEF TopicInv
  <2>8. CASE m = None \/ (m \in EventMessage /\ (m.event.type = "kitchen.decided" \/ Again(m)))
    <3>1. ASSUME NEW o \in Orders, NEW s \in Status
          PROVE  HasStatus(o, s)' <=> HasStatus(o, s)
      <4>1. HasStatus(o, s)' <=> Published(Step(o, s))'
        BY RanksSpeltOut DEF HasStatus, Step
      <4>2. Step(o, s) # IdOf(m) \/ Published(IdOf(m))
        BY <2>8, StepsAreEvents, RanksSpeltOut DEF IdOf, Again
      <4>3. QED
        BY <2>1, <4>1, <4>2, StepsAreEvents
    <3>2. QED
      BY <2>6, <3>1
  <2>9. QED
    <3>1. m \in EventMessage => IdOf(m) = m.event
      BY GarbledIsNoEvent DEF IdOf
    <3>2. QED
      BY <1>2, <2>7, <2>8, <3>1 DEF Fresh
<1>3. QED
  <2>1. \/ UNCHANGED topic
        \/ \E o \in Orders : PublishDecision(o) \/ \E s \in Status : Publish(o, s)
        \/ \E i \in 1..Len(topic) : Republish(topic[i])
        \/ PublishGarbled
    BY DEF Next, vars, Enter, Works, Connect, Fetch, SetAside, Commit, Project, Text, Mail,
           LookupFails, HandlingFails, Disconnect, Crash
  <2>2. QED
    BY <1>1, <1>2, <2>1, PublicationKinds

\* The way an order was undone is final.
LEMMA UndoneIsFinal ==
    ASSUME EventsTypeOK, [Next]_vars, NEW o \in Orders, row[o] \in Undone
    PROVE  row'[o] = row[o]
<1>1. CASE row' = row
  BY <1>1
<1>2. ASSUME NEW p \in Orders, NEW s \in Status, Enter(p, s) PROVE row'[o] = row[o]
  BY <1>2, RanksSpeltOut DEF Enter, EventsTypeOK
<1>3. row' = row \/ \E p \in Orders : \E s \in Status : Enter(p, s)
  BY StepKinds
     DEF Publishes, Unseen, Works, Connect, Fetch, SetAside, Commit, Project, Text, Mail,
         LookupFails, HandlingFails, Disconnect, Crash
<1>4. QED
  BY <1>1, <1>2, <1>3

LEMMA ToldStep ==
    ASSUME EventsTypeOK, TopicInv, ToldInv, [Next]_vars
    PROVE  ToldInv'
\* What is on the topic stays as it was told.
<1>1. ASSUME NEW i \in 1..Len(topic), topic[i] # None,
             topic[i].event.type = "compensation_failed"
      PROVE  topic[i].status = row'[topic[i].event.order] /\ row'[topic[i].event.order] \in Undone
  <2>1. topic[i].event.order \in Orders
    BY <1>1, WhatIsRead DEF Event
  <2>2. QED
    BY <1>1, <2>1, UndoneIsFinal DEF ToldInv
<1>2. ASSUME NEW i \in 1..Len(topic), topic[i] # None,
             topic[i].event.type \in Telling \ {"compensation_failed"},
             \A j \in 1..(i - 1) : EventAt(j)' # EventAt(i)'
      PROVE  topic[i].status = topic[i].event.type
  <2>1. Len(topic) \in Nat /\ \A j \in 1..(i - 1) : j \in 1..Len(topic)
    BY DEF EventsTypeOK
  <2>2. \A j \in 1..(i - 1) : EventAt(j) # EventAt(i)
    BY <1>2, <2>1, TopicGrows
  <2>3. QED
    BY <1>2, <2>2 DEF ToldInv
<1>3. CASE UNCHANGED topic
  BY <1>1, <1>2, <1>3 DEF ToldInv
<1>4. ASSUME NEW m \in Message, Append1(m), row' = row,
             \/ m = None
             \/ m \in EventMessage /\ m.event.type = "kitchen.decided"
             \/ m \in EventMessage /\ Again(m)
             \/ m \in EventMessage /\ Fresh(m)
      PROVE  ToldInv'
  <2>1. /\ Len(topic') = Len(topic) + 1 /\ Len(topic) \in Nat
        /\ \A i \in 1..Len(topic) : topic'[i] = topic[i]
        /\ topic'[Len(topic) + 1] = m
        /\ \A i : i = Len(topic) + 1 => EventAt(i)' = IdOf(m)
        /\ \A i \in 1..Len(topic) : EventAt(i)' = EventAt(i)
    BY <1>4, AppendKeeps, WhatIsPublished DEF EventsTypeOK
  <2>2. ASSUME m # None, m.event.type = "compensation_failed"
        PROVE  m.status = row[m.event.order] /\ row[m.event.order] \in Undone
    <3>1. CASE Again(m)
      BY <2>2, <3>1 DEF Again
    <3>2. CASE Fresh(m)
      BY <2>2, <3>2 DEF Fresh, Step
    <3>3. QED
      BY <1>4, <2>2, <3>1, <3>2
  <2>3. ASSUME m # None, m.event.type \in Telling \ {"compensation_failed"},
               \A j \in 1..Len(topic) : EventAt(j) # m.event
        PROVE  m.status = m.event.type
    <3>1. ~Again(m)
      BY <2>3 DEF Again, Published
    <3>2. CASE Fresh(m)
      BY <2>3, <3>2 DEF Fresh, Step
    <3>3. QED
      BY <1>4, <2>3, <3>1, <3>2 DEF Telling
  <2>4. SUFFICES ASSUME NEW i \in 1..Len(topic'), topic'[i] # None
                 PROVE  LET n == topic'[i]
                            o == n.event.order
                            s == n.event.type
                        IN  /\ s = "compensation_failed" => n.status = row'[o] /\ row'[o] \in Undone
                            /\ /\ s \in Telling \ {"compensation_failed"}
                               /\ \A j \in 1..(i - 1) : EventAt(j)' # EventAt(i)'
                               => n.status = s
    BY DEF ToldInv
  <2>5. CASE i \in 1..Len(topic)
    BY <1>1, <1>2, <2>1, <2>4, <2>5
  <2>6. CASE i = Len(topic) + 1
    <3>1. topic'[i] = m /\ EventAt(i)' = m.event /\ 1..(i - 1) = 1..Len(topic)
      BY <2>1, <2>4, <2>6 DEF IdOf
    <3>2. (\A j \in 1..(i - 1) : EventAt(j)' # EventAt(i)') =>
             \A j \in 1..Len(topic) : EventAt(j) # m.event
      BY <2>1, <3>1
    <3>3. QED
      BY <1>4, <2>2, <2>3, <2>4, <3>1, <3>2
  <2>7. QED
    BY <2>1, <2>5, <2>6
<1>5. \/ UNCHANGED topic
      \/ \E o \in Orders : PublishDecision(o) \/ \E s \in Status : Publish(o, s)
      \/ \E i \in 1..Len(topic) : Republish(topic[i])
      \/ PublishGarbled
  BY DEF Next, vars, Enter, Works, Connect, Fetch, SetAside, Commit, Project, Text, Mail,
         LookupFails, HandlingFails, Disconnect, Crash
<1>6. QED
  BY <1>3, <1>4, <1>5, PublicationKinds

-----------------------------------------------------------------------------
\* Unless an event was passed over, what is applied of an order is everything up
\* to its row, and the counters count the rows.
RowFits(o) ==
    /\ \A t, u \in Status :
          Step(o, t) \in processed /\ HasStatus(o, u) /\ LifeRank[u] < LifeRank[t]
             => Step(o, u) \in processed
    /\ \A t \in Status : Step(o, t) \in processed => LifeRank[t] <= LifeRank[projection[o]]
    /\ projection[o] # "absent" =>
          \E s \in Status : Step(o, s) \in processed /\ projection[o] = Shown(o, s)

TableInv ==
    /\ \A i \in dlq["analytics"] : topic[i] = None
    /\ \A e \in processed : Published(e)
    /\ CountersTellTheTable
    /\ passed["analytics"] = {} => \A o \in Orders : RowFits(o)

EventsInv == OffsetInv /\ TopicInv /\ ToldInv /\ TableInv

\* An order whose failed compensation was published is undone.
LEMMA FailedIsUndone ==
    ASSUME EventsTypeOK, ToldInv, NEW o \in Orders, HasStatus(o, "compensation_failed")
    PROVE  row[o] \in Undone
<1>1. Published(Step(o, "compensation_failed"))
  BY StepsAreEvents, RanksSpeltOut
<1>2. PICK i \in 1..Len(topic) : EventAt(i) = Step(o, "compensation_failed")
  BY <1>1 DEF Published
<1>3. topic[i] # None /\ topic[i].event = Step(o, "compensation_failed")
  BY <1>2, WhatIsRead, StepsAreEvents, RanksSpeltOut
<1>4. QED
  BY <1>3, StepsAreEvents, RanksSpeltOut DEF ToldInv

\* The row shown is of the rank of the status it is shown for.
LEMMA ShownIsOfTheRank ==
    ASSUME EventsTypeOK, ToldInv, NEW o \in Orders, NEW s \in Status, HasStatus(o, s)
    PROVE  Shown(o, s) \in Status /\ LifeRank[Shown(o, s)] = LifeRank[s]
<1>1. CASE s # "compensation_failed"
  BY <1>1 DEF Shown
<1>2. CASE s = "compensation_failed"
  BY <1>2, FailedIsUndone, RanksSpeltOut DEF Shown
<1>3. QED
  BY <1>1, <1>2

\* A status that is new to the table is the next of its order.
LEMMA NewIsNext ==
    ASSUME EventsInv, passed["analytics"] = {}, loop["analytics"] = "fetched",
           NEW o \in Orders, NEW s \in Status, EventAt(position["analytics"]) = Step(o, s),
           Step(o, s) \notin processed
    PROVE  /\ \A u \in Status : HasStatus(o, u) /\ LifeRank[u] < LifeRank[s] => Step(o, u) \in processed
           /\ \A j \in 1..(position["analytics"] - 1) : EventAt(j) # Step(o, s)
           /\ LifeRank[projection[o]] < LifeRank[s]
           /\ projection[o] = "absent" <=> s = "created"
<1> DEFINE p == position["analytics"]
           told == projection[o]
<1>1. /\ p \in 1..Len(topic) /\ Len(topic) \in Nat /\ EventAt(p) = Step(o, s)
      /\ told \in Status \cup {"absent"} /\ EventsTypeOK /\ TopicInv /\ ToldInv
  BY DEF EventsInv, OffsetInv, TypeInv, EventsTypeOK, HandInv, Group
<1>2. HasStatus(o, s)
  <2>1. Published(Step(o, s))
    BY <1>1 DEF Published
  <2>2. QED
    BY <2>1, StepsAreEvents
<1>3. ASSUME NEW j \in 1..(p - 1), NEW u \in Status, EventAt(j) = Step(o, u)
      PROVE  Step(o, u) \in processed
  <2>1. Accounted("analytics", j) /\ j \in 1..Len(topic)
    BY <1>1, <1>3 DEF EventsInv, OffsetInv, OffsetsOf, Group
  <2>2. j \notin dlq["analytics"]
    BY <1>1, <1>3, <2>1, StepsAreEvents, WhatIsRead DEF EventsInv, TableInv
  <2>3. QED
    BY <1>3, <2>1, <2>2 DEF Accounted, Done
<1>4. ASSUME NEW u \in Status, HasStatus(o, u), LifeRank[u] < LifeRank[s]
      PROVE  Step(o, u) \in processed
  <2>1. PICK j \in 1..(p - 1) : EventAt(j) = Step(o, u)
    BY <1>1, <1>4 DEF TopicInv
  <2>2. QED
    BY <1>3, <2>1
<1>5. RowFits(o)
  BY DEF EventsInv, TableInv
<1>6. LifeRank[told] \in 0..5 /\ LifeRank[s] \in 0..5 /\ LifeRank[s] > 0
  BY <1>1, RanksSpeltOut
<1>7. ASSUME told # "absent" PROVE LifeRank[told] < LifeRank[s]
  <2>1. PICK k \in Status : Step(o, k) \in processed /\ told = Shown(o, k)
    BY <1>5, <1>7 DEF RowFits
  <2>2. HasStatus(o, k)
    BY <2>1, StepsAreEvents DEF EventsInv, TableInv
  <2>3. LifeRank[told] = LifeRank[k]
    BY <1>1, <2>1, <2>2, ShownIsOfTheRank
  <2>4. ~(LifeRank[s] < LifeRank[k])
    BY <1>2, <1>5, <2>1 DEF RowFits
  <2>5. LifeRank[s] # LifeRank[k]
    BY <1>1, <1>2, <2>1, <2>2 DEF TopicInv
  <2>6. LifeRank[k] \in 0..5
    BY RanksSpeltOut
  <2>7. QED
    BY <1>6, <2>3, <2>4, <2>5, <2>6
<1>8. LifeRank[told] < LifeRank[s]
  <2>1. told = "absent" => LifeRank[told] = 0
    BY RanksSpeltOut
  <2>2. QED
    BY <1>6, <1>7, <2>1
<1>9. ASSUME s = "created" PROVE told = "absent"
  <2>1. LifeRank["created"] = 1 /\ \A l \in Status : LifeRank[l] \in 0..5 /\ LifeRank[l] > 0
    BY RanksSpeltOut
  <2>2. LifeRank[told] < 1
    BY <1>8, <1>9, <2>1
  <2>3. told \in Status \cup {"absent"} /\ (told \in Status => LifeRank[told] \in 0..5 /\ LifeRank[told] > 0)
    BY <1>1, <2>1
  <2>4. QED
    BY <2>2, <2>3
<1>10. ASSUME s # "created" PROVE told # "absent"
  <2>1. HasStatus(o, "none") /\ LifeRank["none"] < LifeRank[s] /\ Then["none"] = {"created"}
    BY <1>6, RanksSpeltOut DEF HasStatus
  <2>2. HasStatus(o, "created")
    BY <1>1, <1>2, <2>1 DEF TopicInv
  <2>3. Step(o, "created") \in processed /\ LifeRank["created"] = 1
    BY <1>4, <1>10, <2>2, RanksSpeltOut
  <2>4. LifeRank["created"] <= LifeRank[told]
    BY <1>5, <2>3, RanksSpeltOut DEF RowFits
  <2>5. QED
    BY <1>1, <2>3, <2>4, RanksSpeltOut
<1>11. \A j \in 1..(p - 1) : EventAt(j) # Step(o, s)
  BY <1>3
<1>12. QED
  BY <1>4, <1>8, <1>9, <1>10, <1>11

\* What a transaction does to a row.
NoRowMoves(e) == projection' = projection /\ (e \in processed \/ e.type = "kitchen.decided")

RowMovesOn(e) ==
    LET o == e.order
        s == e.type
    IN  /\ e \notin processed /\ o \in Orders /\ s \in Status /\ e = Step(o, s) /\ HasStatus(o, s)
        /\ projection' = [projection EXCEPT ![o] = Shown(o, s)]
        /\ LifeRank[projection[o]] < LifeRank[s]
        /\ projection[o] = "absent" <=> s = "created"
        /\ \A u \in Status : HasStatus(o, u) /\ LifeRank[u] < LifeRank[s] => Step(o, u) \in processed

LEMMA RowsFollow ==
    ASSUME EventsInv, passed["analytics"] = {}, loop["analytics"] = "fetched",
           NEW m, m = InHand("analytics"), m # None, Transaction(m)
    PROVE  /\ m.event \in Event /\ Published(m.event) /\ processed' = processed \cup {m.event}
           /\ m.event.type = "compensation_failed" =>
                 m.status = Shown(m.event.order, m.event.type) /\ m.status \in Undone
           /\ NoRowMoves(m.event) \/ RowMovesOn(m.event)
<1>1. PICK p : p = position["analytics"]
  OBVIOUS
<1>2. /\ EventsTypeOK /\ TopicInv /\ ToldInv
      /\ p \in 1..Len(topic) /\ m = topic[p]
      /\ projection \in [Orders -> Status \cup {"absent"}]
  BY <1>1 DEF EventsInv, OffsetInv, TypeInv, EventsTypeOK, HandInv, InHand, Group
<1>3. PICK e, o, s : e = m.event /\ o = e.order /\ s = e.type
  OBVIOUS
<1>4. e \in Event /\ e = EventAt(p) /\ Published(e)
  BY <1>2, <1>3, WhatIsRead DEF Published
<1>5. o \in Orders /\ s \in Status \cup {"kitchen.decided"} /\ e = Step(o, s)
  BY <1>3, <1>4 DEF Event, EventType, Step
<1>6. /\ processed' = processed \cup {e}
      /\ projection' = IF e \in processed THEN projection
                       ELSE [projection EXCEPT ![o] = Row(projection, m)]
  BY <1>3 DEF Transaction
<1>7. /\ s = "compensation_failed" => m.status = row[o] /\ row[o] \in Undone
      /\ s \in Telling \ {"compensation_failed"} /\ (\A j \in 1..(p - 1) : EventAt(j) # e)
            => m.status = s
  BY <1>2, <1>3, <1>4 DEF ToldInv
<1>8. s = "compensation_failed" => m.status = Shown(o, s) /\ m.status \in Undone
  BY <1>7 DEF Shown
<1>9. ASSUME e \in processed PROVE NoRowMoves(e)
  BY <1>6, <1>9 DEF NoRowMoves
<1>10. ASSUME e \notin processed, s = "kitchen.decided" PROVE NoRowMoves(e)
  <2>1. Row(projection, m) = projection[o]
    BY <1>3, <1>10 DEF Row, Telling
  <2>2. QED
    BY <1>2, <1>3, <1>6, <1>10, <2>1 DEF NoRowMoves
<1>11. ASSUME e \notin processed, s \in Status PROVE RowMovesOn(e)
  <2>1. /\ \A u \in Status : HasStatus(o, u) /\ LifeRank[u] < LifeRank[s]
               => Step(o, u) \in processed
        /\ \A j \in 1..(p - 1) : EventAt(j) # e
        /\ LifeRank[projection[o]] < LifeRank[s]
        /\ projection[o] = "absent" <=> s = "created"
    BY <1>1, <1>4, <1>5, <1>11, NewIsNext
  <2>2. Row(projection, m) = Shown(o, s)
    <3>1. CASE s = "created"
      BY <1>3, <2>1, <3>1 DEF Row, Shown, Telling
    <3>2. CASE s \in Telling
      BY <1>3, <1>7, <1>8, <2>1, <3>2 DEF Row, Shown, Telling
    <3>3. CASE s \notin Telling \cup {"created"}
      BY <1>3, <1>11, <2>1, <3>3 DEF Row, Shown, Telling, Status
    <3>4. QED
      BY <3>1, <3>2, <3>3
  <2>3. HasStatus(o, s)
    BY <1>4, <1>5, <1>11, StepsAreEvents
  <2>4. QED
    BY <1>3, <1>5, <1>6, <1>11, <2>1, <2>2, <2>3 DEF RowMovesOn
<1>12. NoRowMoves(e) \/ RowMovesOn(e)
  BY <1>5, <1>9, <1>10, <1>11
<1>13. QED
  BY <1>3, <1>4, <1>6, <1>8, <1>12

\* The counters' seed after an order's next status.
LEMMA SeedFollows ==
    ASSUME EventsTypeOK, NEW o \in Orders, NEW s \in Status,
           projection' = [projection EXCEPT ![o] = s],
           LifeRank[projection[o]] < LifeRank[s], projection[o] = "absent" <=> s = "created"
    PROVE  Seeded' = IF s \in Counted THEN [Seeded EXCEPT ![s] = @ + 1] ELSE Seeded
<1> DEFINE In(c) == {q \in Orders : IF c = "created" THEN projection[q] # "absent"
                                                     ELSE projection[q] = c}
<1>1. /\ projection \in [Orders -> Status \cup {"absent"}]
      /\ projection'[o] = s /\ \A q \in Orders \ {o} : projection'[q] = projection[q]
  BY DEF EventsTypeOK
<1>2. s # "absent" /\ LifeRank[s] \in 0..5 /\ LifeRank[projection[o]] # LifeRank[s]
  BY <1>1, RanksSpeltOut
<1>3. ASSUME NEW c \in Counted, c # s PROVE In(c)' = In(c)
  <2>1. CASE c = "created"
    BY <1>1, <1>2, <1>3, <2>1
  <2>2. CASE c # "created"
    <3>1. c \in Status /\ LifeRank[c] = 5
      BY <1>3, <2>2, RanksSpeltOut
    <3>2. projection[o] # c /\ projection'[o] # c
      BY <1>1, <1>2, <1>3, <3>1
    <3>3. QED
      BY <1>1, <2>2, <3>2
  <2>3. QED
    BY <2>1, <2>2
<1>4. ASSUME s \in Counted PROVE In(s)' = In(s) \cup {o} /\ o \notin In(s)
  <2>1. s # "created" => projection[o] # s
    BY <1>2
  <2>2. QED
    BY <1>1, <1>2, <2>1
<1>5. ASSUME NEW c \in Counted PROVE IsFiniteSet(In(c)) /\ Cardinality(In(c)) \in Nat
  <2>1. IsFiniteSet(In(c))
    BY OrdersAreFinite, FS_Subset
  <2>2. QED
    BY <2>1, FS_CardinalityType
<1>6. Seeded = [c \in Counted |-> Cardinality(In(c))] /\ Seeded' = [c \in Counted |-> Cardinality(In(c)')]
  BY DEF Seeded
<1>7. ASSUME s \in Counted PROVE Cardinality(In(s)') = Cardinality(In(s)) + 1
  BY <1>4, <1>5, <1>7, FS_AddElement
<1> HIDE DEF In
<1>8. CASE s \in Counted
  BY <1>3, <1>6, <1>7, <1>8
<1>9. CASE s \notin Counted
  BY <1>3, <1>6, <1>9
<1>10. QED
  BY <1>8, <1>9

\* How an order stands that was published undone is settled.
LEMMA ShownStays ==
    ASSUME EventsTypeOK, ToldInv, [Next]_vars, NEW o \in Orders, NEW s \in Status, HasStatus(o, s)
    PROVE  Shown(o, s)' = Shown(o, s)
<1>1. CASE s # "compensation_failed"
  BY <1>1 DEF Shown
<1>2. CASE s = "compensation_failed"
  <2>1. Shown(o, s) = row[o] /\ Shown(o, s)' = row'[o]
    BY <1>2 DEF Shown
  <2>2. row[o] \in Undone
    BY <1>2, FailedIsUndone
  <2>3. QED
    BY <2>1, <2>2, UndoneIsFinal
<1>3. QED
  BY <1>1, <1>2

\* Steps that leave the table alone.
LEMMA RowsStay ==
    ASSUME EventsInv, TopicInv', [Next]_vars, passed["analytics"] = {},
           UNCHANGED <<processed, projection>>
    PROVE  \A o \in Orders : RowFits(o)'
<1> SUFFICES ASSUME NEW o \in Orders PROVE RowFits(o)'
  OBVIOUS
<1>1. RowFits(o) /\ EventsTypeOK /\ ToldInv
  BY DEF EventsInv, OffsetInv, TypeInv, TableInv
<1>2. \A t \in Status : Step(o, t) \in processed => HasStatus(o, t)
  BY StepsAreEvents DEF EventsInv, TableInv
<1>3. ASSUME NEW t \in Status, NEW u \in Status,
             Step(o, t) \in processed, HasStatus(o, u)', LifeRank[u] < LifeRank[t]
      PROVE  Step(o, u) \in processed
  <2>1. Published(Step(o, t))
    BY <1>3 DEF EventsInv, TableInv
  <2>2. PICK i \in 1..Len(topic) : EventAt(i) = Step(o, t)
    BY <2>1 DEF Published
  <2>3. EventAt(i)' = Step(o, t) /\ i \in 1..Len(topic')
    BY <1>1, <2>2, TopicGrows
  <2>4. PICK j \in 1..(i - 1) : EventAt(j)' = Step(o, u)
    BY <1>3, <2>3 DEF TopicInv
  <2>5. j \in 1..Len(topic) /\ EventAt(j) = Step(o, u)
    <3>1. Len(topic) \in Nat
      BY <1>1 DEF EventsTypeOK
    <3>2. j \in 1..Len(topic)
      BY <3>1
    <3>3. QED
      BY <1>1, <2>4, <3>2, TopicGrows
  <2>6. Published(Step(o, u))
    BY <2>5 DEF Published
  <2>7. QED
    BY <1>1, <1>3, <2>6, StepsAreEvents DEF RowFits
<1>4. ASSUME projection[o] # "absent"
      PROVE  \E s \in Status : Step(o, s) \in processed /\ projection[o] = Shown(o, s)'
  <2>1. PICK s \in Status : Step(o, s) \in processed /\ projection[o] = Shown(o, s)
    BY <1>1, <1>4 DEF RowFits
  <2>2. Shown(o, s)' = Shown(o, s)
    BY <1>1, <1>2, <2>1, ShownStays
  <2>3. QED
    BY <2>1, <2>2
<1>5. QED
  BY <1>1, <1>3, <1>4 DEF RowFits, Step

\* The counters' next state, if the step is a projection.
LEMMA CountersFollow ==
    ASSUME EventsInv, Project, passed["analytics"] = {}
    PROVE  CountersTellTheTable'
<1>1. PICK m : m = InHand("analytics")
  OBVIOUS
<1>2. PICK e, o, s : e = m.event /\ o = e.order /\ s = e.type
  OBVIOUS
<1>3. /\ loop["analytics"] = "fetched" /\ m # None /\ Transaction(m)
      /\ counters' = Advanced(e) /\ topic' = topic /\ passed' = passed /\ row' = row
  BY <1>1, <1>2 DEF Project
<1>4. /\ s = "compensation_failed" => m.status = Shown(o, s) /\ m.status \in Undone
      /\ NoRowMoves(e) \/ RowMovesOn(e)
  BY <1>1, <1>2, <1>3, RowsFollow
<1>5. EventsTypeOK /\ CountersTellTheTable
  BY DEF EventsInv, OffsetInv, TypeInv, TableInv
<1>6. CASE NoRowMoves(e)
  <2>1. Advanced(e) = counters
    BY <1>6 DEF NoRowMoves, Advanced, Counted
  <2>2. Seeded' = Seeded
    BY <1>6 DEF NoRowMoves, Seeded
  <2>3. QED
    BY <1>3, <1>5, <2>1, <2>2 DEF CountersTellTheTable, Crossed
<1>7. CASE RowMovesOn(e)
  <2>1. PICK r : r = Shown(o, s)
    OBVIOUS
  <2>2. /\ e \notin processed /\ o \in Orders /\ s \in Status
        /\ projection' = [projection EXCEPT ![o] = r]
        /\ LifeRank[projection[o]] < LifeRank[s]
        /\ projection[o] = "absent" <=> s = "created"
        /\ HasStatus(o, s)
    BY <1>2, <1>7, <2>1 DEF RowMovesOn
  <2>3. r \in Status /\ LifeRank[r] = LifeRank[s] /\ ToldInv
    BY <1>5, <2>1, <2>2, ShownIsOfTheRank DEF EventsInv
  <2>4. IF s = "compensation_failed" THEN r \in Undone ELSE r = s
    BY <1>4, <2>1 DEF Shown
  <2>5. r = "created" <=> s = "created"
    BY <2>4 DEF Undone
  <2>6. Seeded' = IF r \in Counted THEN [Seeded EXCEPT ![r] = @ + 1] ELSE Seeded
    BY <1>5, <2>2, <2>3, <2>5, SeedFollows
  <2>7. counters' = IF s \in Counted THEN [counters EXCEPT ![s] = @ + 1] ELSE counters
    BY <1>2, <1>3, <2>2 DEF Advanced
  <2>8. counters \in [Counted -> Nat] /\ Seeded \in [Counted -> Nat]
    BY <1>5, SeededIsNatural DEF EventsTypeOK
  <2>9. /\ \A c \in Counted \ Undone : counters[c] = Seeded[c]
        /\ counters["cancelled"] + counters["compensation_failed"]
             = Seeded["cancelled"] + Seeded["compensation_failed"]
        /\ (\A i \in 1..Len(topic) : ~Crossed(topic[i])) => counters = Seeded
    BY <1>5 DEF CountersTellTheTable
  <2>10. CASE s # "compensation_failed"
    <3>1. r = s
      BY <2>4, <2>10
    <3>2. \A c \in Counted \ Undone : counters'[c] = Seeded'[c]
      BY <2>6, <2>7, <2>8, <2>9, <3>1
    <3>3. counters'["cancelled"] + counters'["compensation_failed"]
             = Seeded'["cancelled"] + Seeded'["compensation_failed"]
      <4>1. "cancelled" \in Counted /\ "compensation_failed" \in Counted
        BY DEF Counted
      <4>2. /\ counters'["compensation_failed"] = counters["compensation_failed"]
            /\ Seeded'["compensation_failed"] = Seeded["compensation_failed"]
        BY <2>6, <2>7, <2>8, <2>10, <3>1, <4>1
      <4>3. CASE s = "cancelled"
        <5>1. /\ counters'["cancelled"] = counters["cancelled"] + 1
              /\ Seeded'["cancelled"] = Seeded["cancelled"] + 1
          <6>1. /\ counters' = [counters EXCEPT !["cancelled"] = counters["cancelled"] + 1]
                /\ Seeded' = [Seeded EXCEPT !["cancelled"] = Seeded["cancelled"] + 1]
            BY <2>6, <2>7, <3>1, <4>1, <4>3
          <6>2. QED
            BY <2>8, <4>1, <6>1
        <5>2. counters["cancelled"] \in Nat /\ counters["compensation_failed"] \in Nat
          BY <2>8, <4>1
        <5>3. Seeded["cancelled"] \in Nat /\ Seeded["compensation_failed"] \in Nat
          BY <2>8, <4>1
        <5>4. QED
          <6>1. counters["cancelled"] + counters["compensation_failed"]
                  = Seeded["cancelled"] + Seeded["compensation_failed"]
            BY <2>9
          <6>2. QED
            BY <4>2, <5>1, <5>2, <5>3, <6>1
      <4>4. CASE s # "cancelled"
        <5>1. /\ counters'["cancelled"] = counters["cancelled"]
              /\ Seeded'["cancelled"] = Seeded["cancelled"]
          BY <2>6, <2>7, <2>8, <3>1, <4>1, <4>4
        <5>2. QED
          BY <2>9, <4>2, <5>1
      <4>5. QED
        BY <4>3, <4>4
    <3>4. (\A i \in 1..Len(topic) : ~Crossed(topic[i])) => counters' = Seeded'
      BY <2>6, <2>7, <2>9, <3>1
    <3>5. QED
      BY <1>3, <3>2, <3>3, <3>4 DEF CountersTellTheTable, Crossed
  <2>11. CASE s = "compensation_failed"
    <3>1. r \in Undone /\ Undone \subseteq Counted /\ s \in Undone
      BY <2>4, <2>11 DEF Undone, Counted
    <3>2. \A c \in Counted \ Undone : counters'[c] = Seeded'[c]
      BY <2>6, <2>7, <2>8, <2>9, <3>1
    <3>3. counters'["cancelled"] + counters'["compensation_failed"]
             = Seeded'["cancelled"] + Seeded'["compensation_failed"]
      BY <2>6, <2>7, <2>8, <2>9, <2>11, <3>1 DEF Counted, Undone
    <3>4. ASSUME \A i \in 1..Len(topic) : ~Crossed(topic[i]) PROVE counters' = Seeded'
      <4>1. position["analytics"] \in 1..Len(topic) /\ m = topic[position["analytics"]]
        BY <1>1, <1>3 DEF EventsInv, OffsetInv, TypeInv, HandInv, InHand, Group
      <4>2. m.status = r /\ ~Crossed(m)
        BY <1>4, <2>1, <2>11, <3>4, <4>1
      <4>3. r = s
        BY <1>2, <1>3, <2>11, <3>1, <4>2 DEF Crossed, Undone
      <4>4. QED
        BY <2>6, <2>7, <2>9, <3>4, <4>3
    <3>5. QED
      BY <1>3, <3>2, <3>3, <3>4 DEF CountersTellTheTable, Crossed
  <2>12. QED
    BY <2>10, <2>11
<1>8. QED
  BY <1>4, <1>6, <1>7

\* The table's next state, if the step is a projection.
LEMMA ProjectFits ==
    ASSUME EventsInv, Project, passed["analytics"] = {}
    PROVE  \A o \in Orders : RowFits(o)'
<1>1. PICK m : m = InHand("analytics")
  OBVIOUS
<1>2. PICK e, p, s : e = m.event /\ p = e.order /\ s = e.type
  OBVIOUS
<1>3. /\ loop["analytics"] = "fetched" /\ m # None /\ Transaction(m)
      /\ topic' = topic /\ row' = row
  BY <1>1 DEF Project
<1>4. /\ e \in Event /\ processed' = processed \cup {e} /\ (NoRowMoves(e) \/ RowMovesOn(e))
  BY <1>1, <1>2, <1>3, RowsFollow
<1>5. EventsTypeOK /\ ToldInv /\ \A o \in Orders : RowFits(o)
  BY DEF EventsInv, OffsetInv, TypeInv, TableInv
<1>6. /\ \A o \in Orders : \A u \in Status : HasStatus(o, u)' <=> HasStatus(o, u)
      /\ \A o \in Orders : \A u \in Status : Shown(o, u)' = Shown(o, u)
  BY <1>3 DEF HasStatus, Published, EventAt, Shown
<1>7. CASE NoRowMoves(e)
  <2>1. \A o \in Orders : \A t \in Status : Step(o, t)' \in processed' <=> Step(o, t) \in processed
    <3>1. CASE e \in processed
      BY <1>4, <3>1 DEF Step
    <3>2. CASE e.type = "kitchen.decided"
      <4>1. \A o \in Orders : \A t \in Status : Step(o, t) # e
        BY <3>2, RanksSpeltOut DEF Step
      <4>2. QED
        BY <1>4, <4>1 DEF Step
    <3>3. QED
      BY <1>7, <3>1, <3>2 DEF NoRowMoves
  <2>2. ASSUME NEW o \in Orders PROVE RowFits(o)'
    <3>1. RowFits(o) /\ projection' = projection
      BY <1>5, <1>7 DEF NoRowMoves
    <3>2. QED
      BY <1>6, <2>1, <3>1 DEF RowFits, Step
  <2>3. QED
    BY <2>2
<1>8. CASE RowMovesOn(e)
  <2>1. PICK r : r = Shown(p, s)
    OBVIOUS
  <2>2. /\ e \notin processed /\ p \in Orders /\ s \in Status /\ e = Step(p, s)
        /\ projection' = [projection EXCEPT ![p] = r]
        /\ LifeRank[projection[p]] < LifeRank[s]
        /\ \A u \in Status : HasStatus(p, u) /\ LifeRank[u] < LifeRank[s] => Step(p, u) \in processed
        /\ HasStatus(p, s)
    BY <1>2, <1>8, <2>1 DEF RowMovesOn
  <2>3. r \in Status /\ LifeRank[r] = LifeRank[s] /\ LifeRank[s] \in 0..5
    BY <1>5, <2>1, <2>2, ShownIsOfTheRank, RanksSpeltOut
  <2>4. /\ projection'[p] = r /\ \A o \in Orders \ {p} : projection'[o] = projection[o]
        /\ \A o \in Orders : projection[o] \in Status \cup {"absent"}
    BY <1>5, <2>2 DEF EventsTypeOK
  <2>5. \A o \in Orders : \A t \in Status :
           Step(o, t) \in processed' <=> Step(o, t) \in processed \/ (o = p /\ t = s)
    BY <1>4, <2>2 DEF Step
  <2>6. ASSUME NEW o \in Orders, o # p PROVE RowFits(o)'
    <3>1. RowFits(o) /\ projection'[o] = projection[o]
      BY <1>5, <2>4, <2>6
    <3>2. \A t \in Status : Step(o, t)' \in processed' <=> Step(o, t) \in processed
      BY <2>5, <2>6 DEF Step
    <3>3. QED
      BY <1>6, <3>1, <3>2 DEF RowFits, Step
  <2>7. RowFits(p)'
    <3>1. RowFits(p) /\ \A t \in Status : LifeRank[t] \in 0..5
      BY <1>5, <2>2, RanksSpeltOut
    <3>2. \A t \in Status : Step(p, t) \in processed => LifeRank[t] < LifeRank[s]
      <4>1. LifeRank[projection[p]] \in 0..5
        BY <2>2, <2>4, RanksSpeltOut
      <4>2. QED
        BY <2>2, <2>3, <3>1, <4>1 DEF RowFits
    <3>3. ASSUME NEW t \in Status, Step(p, t) \in processed' PROVE LifeRank[t] <= LifeRank[r]
      <4>1. Step(p, t) \in processed \/ t = s
        BY <2>2, <2>5, <3>3
      <4>2. LifeRank[t] < LifeRank[s] \/ t = s
        BY <3>2, <4>1
      <4>3. QED
        BY <2>3, <3>1, <4>2
    <3>4. Step(p, s) \in processed'
      BY <2>2, <2>5
    <3>5. ASSUME NEW t \in Status, NEW u \in Status,
                 Step(p, t) \in processed', HasStatus(p, u)', LifeRank[u] < LifeRank[t]
          PROVE  Step(p, u) \in processed'
      BY <1>6, <2>2, <2>5, <3>1, <3>5 DEF RowFits
    <3>6. Step(p, s) \in processed' /\ projection'[p] = Shown(p, s)'
      BY <1>6, <2>1, <2>2, <2>4, <3>4
    <3>7. QED
      BY <2>2, <2>4, <3>3, <3>5, <3>6 DEF RowFits, Step
  <2>8. QED
    BY <2>6, <2>7
<1>9. QED
  BY <1>4, <1>7, <1>8

LEMMA TableStep ==
    ASSUME EventsInv, TopicInv', [Next]_vars
    PROVE  TableInv'
<1>1. EventsTypeOK /\ TableInv /\ TypeInv
  BY DEF EventsInv, OffsetInv, TypeInv
<1>2. \A i \in dlq["analytics"] : i \in 1..Len(topic)
  BY <1>1 DEF EventsTypeOK, Group
<1>3. \A e \in processed : Published(e)'
  BY <1>1, TopicGrows DEF TableInv
<1>4. \A i \in dlq["analytics"] : topic'[i] = None
  BY <1>1, <1>2, TopicGrows DEF TableInv
<1>5. ASSUME loop["analytics"] \in {"fetched", "texted"}, InHand("analytics") # None
      PROVE  \A e : e = InHand("analytics").event => Published(e)'
  <2>1. position["analytics"] \in 1..Len(topic)
    BY <1>1, <1>5 DEF TypeInv, HandInv, Group
  <2>2. InHand("analytics").event = EventAt(position["analytics"])
    BY <1>1, <1>5, <2>1, WhatIsRead DEF InHand
  <2>3. Published(InHand("analytics").event)
    BY <2>1, <2>2 DEF Published
  <2>4. QED
    BY <1>1, <2>3, TopicGrows
<1>6. CASE Project
  <2>1. /\ dlq' = dlq /\ passed' = passed
        /\ InHand("analytics") # None /\ processed' = processed \cup {InHand("analytics").event}
        /\ loop["analytics"] = "fetched"
    BY <1>6 DEF Project, Transaction
  <2>2. passed'["analytics"] = {} => CountersTellTheTable' /\ \A o \in Orders : RowFits(o)'
    BY <1>6, <2>1, ProjectFits, CountersFollow
  <2>3. CountersTellTheTable'
    BY <2>2 DEF CountersTellTheTable
  <2>4. QED
    BY <1>3, <1>4, <1>5, <2>1, <2>2, <2>3 DEF TableInv
<1>7. CASE HandlingFails("analytics")
  <2>1. /\ dlq' = dlq /\ passed'["analytics"] # {}
        /\ loop["analytics"] \in {"fetched", "texted"} /\ InHand("analytics") # None
        /\ processed' \subseteq processed \cup {InHand("analytics").event}
    BY <1>1, <1>7 DEF HandlingFails, Transaction, EventsTypeOK, Group
  <2>2. CountersTellTheTable'
    BY <2>1 DEF CountersTellTheTable
  <2>3. QED
    BY <1>3, <1>4, <1>5, <2>1, <2>2 DEF TableInv
<1>8. CASE /\ UNCHANGED <<processed, projection>>
           /\ UNCHANGED passed["analytics"]
           /\ \A i \in dlq'["analytics"] : i \in dlq["analytics"] \/ topic'[i] = None
           /\ counters' = counters \/ counters' = Seeded
  <2>1. Seeded' = Seeded
    BY <1>8 DEF Seeded
  <2>2. (\A i \in 1..Len(topic') : ~Crossed(topic'[i])) => \A i \in 1..Len(topic) : ~Crossed(topic[i])
    BY <1>1, TopicGrows
  <2>3. CountersTellTheTable'
    BY <1>1, <1>8, <2>1, <2>2 DEF TableInv, CountersTellTheTable, Crossed
  <2>4. passed["analytics"] = {} => \A o \in Orders : RowFits(o)'
    BY <1>8, RowsStay
  <2>5. QED
    BY <1>3, <1>4, <1>8, <2>3, <2>4 DEF TableInv
<1>9. \/ Project \/ HandlingFails("analytics")
      \/ /\ UNCHANGED <<processed, projection>>
         /\ UNCHANGED passed["analytics"]
         /\ \A i \in dlq'["analytics"] : i \in dlq["analytics"] \/ topic'[i] = None
         /\ counters' = counters \/ counters' = Seeded
  <2>1. CASE Publishes \/ Unseen
    BY <2>1 DEF Publishes, Unseen, analyticsVars
  <2>2. ASSUME NEW g \in Group, SetAside(g)
        PROVE  /\ UNCHANGED <<processed, projection, passed, counters>>
               /\ \A i \in dlq'["analytics"] : i \in dlq["analytics"] \/ topic'[i] = None
    BY <1>1, <2>2 DEF SetAside, InHand, EventsTypeOK, Group, analyticsVars
  <2>3. ASSUME NEW g \in Group, Works(g)
        PROVE  /\ UNCHANGED <<processed, projection, passed, counters>>
               /\ \A i \in dlq'["analytics"] : i \in dlq["analytics"] \/ topic'[i] = None
    BY <2>2, <2>3 DEF Works, Connect, Fetch, Commit, analyticsVars
  <2>4. ASSUME HandlingFails("notification")
        PROVE  UNCHANGED <<processed, projection, counters, dlq, passed["analytics"]>>
    BY <1>1, <2>4 DEF HandlingFails, EventsTypeOK, Group
  <2>5. ASSUME NEW g \in Group, Disconnect(g) \/ Crash(g)
        PROVE  /\ UNCHANGED <<processed, projection, dlq, passed>>
               /\ counters' = counters \/ counters' = Seeded
    BY <2>5 DEF Disconnect, Crash, analyticsVars
  <2>6. CASE Text \/ Mail
    BY <2>6 DEF Text, Mail, analyticsVars
  <2>7. CASE LookupFails
    BY <1>1, <2>7 DEF LookupFails, analyticsVars, EventsTypeOK, Group
  <2>8. QED
    BY <1>1, <2>1, <2>3, <2>4, <2>5, <2>6, <2>7, StepKinds DEF Group
<1>10. QED
  BY <1>6, <1>7, <1>8, <1>9

LEMMA EventsStep ==
    ASSUME EventsInv, [Next]_vars
    PROVE  EventsInv'
<1>1. EventsTypeOK
  BY DEF EventsInv, OffsetInv, TypeInv
<1>2. OffsetInv' /\ TopicInv' /\ ToldInv'
  BY <1>1, OffsetStep, TopicStep, ToldStep DEF EventsInv
<1>3. QED
  BY <1>2, TableStep DEF EventsInv

LEMMA EventsInitially == Init => EventsInv
<1> SUFFICES ASSUME Init PROVE EventsInv
  OBVIOUS
<1>1. OffsetInv
  BY OffsetInitially
<1>2. topic = <<>> /\ Len(topic) = 0 /\ \A e : ~Published(e)
  BY DEF Init, Published
<1>3. TopicInv
  BY <1>2, StepsAreEvents DEF TopicInv
<1>4. counters = Seeded
  <2>1. \A c \in Counted : {o \in Orders : IF c = "created" THEN projection[o] # "absent"
                                                          ELSE projection[o] = c} = {}
    BY DEF Init, Counted
  <2>2. QED
    BY <2>1, FS_EmptySet DEF Init, Seeded
<1>5. CountersTellTheTable
  BY <1>4 DEF CountersTellTheTable
<1>6. TableInv
  BY <1>5 DEF Init, TableInv, RowFits, Group
<1>7. ToldInv
  BY <1>2 DEF ToldInv
<1>8. QED
  BY <1>1, <1>3, <1>6, <1>7 DEF EventsInv

LEMMA EventsInvariant == Spec => []EventsInv
  BY EventsInitially, EventsStep, PTL DEF Spec

\* Redelivery, reconnection and restarts count no order twice and forget none:
\* the counters say what the table says, but that an order undone both ways is
\* counted by its event and recorded by its row.
THEOREM CountersAgreeWithTheTable == Spec => []CountersTellTheTable
<1>1. EventsInv => CountersTellTheTable
  BY DEF EventsInv, TableInv
<1>2. QED
  BY <1>1, EventsInvariant, PTL

\* A consumer that has caught up has each order at its last published status, or,
\* when that is 'compensation_failed', at the way the Order Service has it undone.
THEOREM CaughtUpTableTellsTheTopic == Spec => []TableTellsTheTopic
<1>1. ASSUME EventsInv, passed["analytics"] = {}, committed["analytics"] = Len(topic),
             NEW o \in Orders
      PROVE  IF projection[o] = "absent" THEN ~HasStatus(o, "created")
             ELSE \E s \in Status : IsLatest(o, s) /\ projection[o] = Shown(o, s)
  <2>1. /\ EventsTypeOK /\ ToldInv /\ RowFits(o) /\ projection[o] \in Status \cup {"absent"}
        /\ LifeRank[projection[o]] \in 0..5
    BY <1>1, RanksSpeltOut DEF EventsInv, OffsetInv, TypeInv, EventsTypeOK, TableInv
  <2>2. ASSUME NEW u \in Status, HasStatus(o, u) PROVE Step(o, u) \in processed
    <3>1. Published(Step(o, u))
      BY <2>2, StepsAreEvents
    <3>2. PICK i \in 1..Len(topic) : EventAt(i) = Step(o, u)
      BY <3>1 DEF Published
    <3>3. Accounted("analytics", i)
      BY <1>1 DEF EventsInv, OffsetInv, OffsetsOf, Group
    <3>4. i \notin dlq["analytics"]
      BY <1>1, <2>1, <3>2, StepsAreEvents, WhatIsRead DEF EventsInv, TableInv
    <3>5. QED
      BY <1>1, <3>2, <3>3, <3>4 DEF Accounted, Done
  <2>3. \A u \in Status : HasStatus(o, u) => LifeRank[u] <= LifeRank[projection[o]]
    BY <2>1, <2>2 DEF RowFits
  <2>4. CASE projection[o] = "absent"
    BY <2>3, <2>4, RanksSpeltOut
  <2>5. CASE projection[o] # "absent"
    <3>1. PICK s \in Status : Step(o, s) \in processed /\ projection[o] = Shown(o, s)
      BY <2>1, <2>5 DEF RowFits
    <3>2. HasStatus(o, s)
      BY <1>1, <3>1, StepsAreEvents DEF EventsInv, TableInv
    <3>3. LifeRank[projection[o]] = LifeRank[s]
      BY <2>1, <3>1, <3>2, ShownIsOfTheRank
    <3>4. \A n \in Then[s] : n \in Status /\ LifeRank[s] < LifeRank[n]
                                         /\ LifeRank[n] \in 0..5 /\ LifeRank[s] \in 0..5
      BY RanksSpeltOut
    <3>5. \A n \in Then[s] : ~HasStatus(o, n)
      BY <2>3, <3>3, <3>4
    <3>6. QED
      BY <2>5, <3>1, <3>2, <3>5 DEF IsLatest
  <2>6. QED
    BY <2>4, <2>5
<1>2. EventsInv => TableTellsTheTopic
  BY <1>1 DEF TableTellsTheTopic
<1>3. QED
  BY <1>2, EventsInvariant, PTL

\* However often an event is published again behind those that followed it, a row
\* goes on and never back.
THEOREM RowsMoveForward == Spec => ProjectionMovesForward
<1>1. ASSUME EventsInv, [Next]_vars, passed["analytics"] = {},
             NEW o \in Orders, projection'[o] # projection[o]
      PROVE  LifeRank[projection'[o]] > LifeRank[projection[o]]
  <2>1. EventsTypeOK /\ ToldInv
    BY <1>1 DEF EventsInv, OffsetInv, TypeInv
  <2>2. projection' # projection
    BY <1>1
  <2>3. PICK m : m = InHand("analytics")
    OBVIOUS
  <2>4. Transaction(m) /\ m # None /\ loop["analytics"] = "fetched"
    <3>1. loop["analytics"] # "texted"
      BY <1>1 DEF EventsInv, OffsetInv, OffsetsOf, Group
    <3>2. Project \/ \E g \in Group : HandlingFails(g)
      BY <1>1, <2>1, <2>2, StepKinds
         DEF Publishes, Unseen, analyticsVars, Works, Connect, Fetch, SetAside, Commit, Text,
             Mail, LookupFails, Disconnect, Crash
    <3>3. QED
      BY <2>2, <2>3, <3>1, <3>2 DEF Project, HandlingFails
  <2>5. PICK e : e = m.event
    OBVIOUS
  <2>6. RowMovesOn(e)
    BY <1>1, <2>2, <2>3, <2>4, <2>5, RowsFollow DEF NoRowMoves
  <2>7. PICK p, s : p = e.order /\ s = e.type
    OBVIOUS
  <2>8. /\ p \in Orders /\ s \in Status /\ HasStatus(p, s)
        /\ projection' = [projection EXCEPT ![p] = Shown(p, s)]
        /\ LifeRank[projection[p]] < LifeRank[s]
    BY <2>6, <2>7 DEF RowMovesOn
  <2>9. o = p /\ projection'[o] = Shown(p, s)
    BY <1>1, <2>1, <2>8 DEF EventsTypeOK
  <2>10. LifeRank[Shown(p, s)] = LifeRank[s]
    BY <2>1, <2>8, ShownIsOfTheRank
  <2>11. LifeRank[projection[o]] \in 0..5 /\ LifeRank[s] \in 0..5
    BY <2>1, <2>8, RanksSpeltOut DEF EventsTypeOK
  <2>12. QED
    BY <2>8, <2>9, <2>10, <2>11
<1>2. EventsInv /\ [Next]_vars =>
        (\A o \in Orders : projection'[o] # projection[o] /\ passed["analytics"] = {} =>
            LifeRank[projection'[o]] > LifeRank[projection[o]])
  BY <1>1
<1>3. QED
  BY <1>2, EventsInvariant, PTL DEF Spec, ProjectionMovesForward
=============================================================================
