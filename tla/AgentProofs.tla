------------------------------ MODULE AgentProofs ------------------------------
(***************************************************************************)
(* Proofs about AgentFilters, for any number of agents, messages, filters  *)
(* and threads.                                                            *)
(***************************************************************************)
EXTENDS AgentFilters, TLAPS

LEMMA HeadAndTail ==
    ASSUME NEW s \in Seq(Registrations), s # <<>>
    PROVE  /\ Head(s) \in Registrations
           /\ Tail(s) \in Seq(Registrations)
           /\ Elements(s) \subseteq {Head(s)} \cup Elements(Tail(s))
<1>1. Head(s) = s[1] /\ Tail(s) \in Seq(Registrations) /\ 1 \in DOMAIN s
  OBVIOUS
<1>2. /\ Len(Tail(s)) = Len(s) - 1 /\ Len(s) \in Nat
      /\ \A i \in 1 .. Len(s) - 1 : Tail(s)[i] = s[i + 1]
  OBVIOUS
<1>3. DOMAIN s = 1 .. Len(s) /\ DOMAIN Tail(s) = 1 .. Len(s) - 1
  BY <1>1, <1>2
<1>4. ASSUME NEW i \in DOMAIN s, i # 1 PROVE s[i] \in Elements(Tail(s))
  <2>1. i - 1 \in DOMAIN Tail(s) /\ s[i] = Tail(s)[i - 1]
    BY <1>2, <1>3, <1>4
  <2> QED
    BY <2>1 DEF Elements
<1> QED
  BY <1>1, <1>4 DEF Elements

LEMMA StackedElements ==
    ASSUME NEW r \in Registrations, reg[r].original \in Seq(Registrations)
    PROVE  /\ Stacked(r) \in Seq(Registrations)
           /\ Elements(Stacked(r)) = {r} \cup Elements(reg[r].original)
<1> DEFINE s == reg[r].original
<1>1. /\ Stacked(r) \in Seq(Registrations)
      /\ Len(Stacked(r)) = Len(s) + 1 /\ Stacked(r)[1] = r
      /\ \A i \in DOMAIN s : Stacked(r)[i + 1] = s[i] /\ i + 1 \in DOMAIN Stacked(r)
      /\ \A i \in DOMAIN Stacked(r) :
            i = 1 \/ (i - 1 \in DOMAIN s /\ Stacked(r)[i] = s[i - 1])
  BY DEF Stacked
<1>2. 1 \in DOMAIN Stacked(r)
  BY <1>1
<1>3. Elements(Stacked(r)) \subseteq {r} \cup Elements(s)
  BY <1>1 DEF Elements
<1>4. r \in Elements(Stacked(r))
  BY <1>1, <1>2 DEF Elements
<1>5. ASSUME NEW i \in DOMAIN s PROVE s[i] \in Elements(Stacked(r))
  BY <1>1, <1>5 DEF Elements
<1>6. Elements(s) \subseteq Elements(Stacked(r))
  BY <1>5 DEF Elements
<1> HIDE DEF s
<1> QED
  BY <1>1, <1>3, <1>4, <1>6 DEF s

\* What a filter of the first version makes of a content is a content again.
LEMMA WrappedType ==
    ASSUME NEW content \in Contents, NEW new \in Wrapped(content)
    PROVE  new \in Contents /\ new.risk >= content.risk /\ new.wraps >= 1
BY DEF Contents, Wrapped, Risks

\* A delivery goes on, in a state of the right type.
LEMMA GoesOn ==
    ASSUME TypeOK, NEW d \in Deliveries, NEW t \in DeliveryType,
           t.pc = "write" => t.stack # <<>> /\ Head(t.stack) \in First, Set(d, t)
    PROVE  /\ delivery' \in [Deliveries -> SUBSET DeliveryType]
           /\ \A e \in Deliveries : \A s \in delivery'[e] :
                s.pc = "write" => s.stack # <<>> /\ Head(s.stack) \in First
<1>1. /\ delivery' \in [Deliveries -> SUBSET DeliveryType]
      /\ \A e \in Deliveries : delivery'[e] = IF e = d THEN {t} ELSE delivery[e]
  BY DEF TypeOK, Set
<1> QED
  BY <1>1 DEF TypeOK

LEMMA InitTypes == Init => TypeOK
<1> SUFFICES ASSUME Init PROVE TypeOK
  OBVIOUS
<1>1. message \in [Messages -> MessageType]
  BY DEF Init, MessageType, Contents, Risks
<1> QED
  BY <1>1 DEF Init, TypeOK

LEMMA TypeStep == TypeOK /\ [Next]_vars => TypeOK'
<1> SUFFICES ASSUME TypeOK, [Next]_vars PROVE TypeOK'
  OBVIOUS
<1> USE DEF TypeOK
<1>1. ASSUME NEW r \in Registrations, NEW a \in Agents, ReadOriginal(r, a) PROVE TypeOK'
  BY <1>1 DEF ReadOriginal
<1>2. ASSUME NEW r \in Registrations, Replace(r) PROVE TypeOK'
  <2>1. reg[r].agent \in Agents /\ reg[r].original \in Seq(Registrations)
    BY <1>2 DEF Replace
  <2>2. Stacked(r) \in Seq(Registrations)
    BY <2>1, StackedElements
  <2>3. lost' \subseteq Registrations
    BY <1>2, <2>1 DEF Replace, Elements
  <2>4. reg' \in [Registrations -> [pc : {"no"}] \cup
                    [pc : {"read", "done"}, agent : Agents, original : Seq(Registrations)]]
    BY <1>2, <2>1 DEF Replace
  <2> QED
    BY <1>2, <2>1, <2>2, <2>3, <2>4 DEF Replace
<1>3. ASSUME NEW d \in Deliveries, NEW a \in Agents, NEW m \in Messages, Deliver(d, a, m)
      PROVE  TypeOK'
  BY <1>3 DEF Deliver, DeliveryType
<1>4. ASSUME NEW d \in Deliveries, PackageFilter(d) PROVE TypeOK'
  <2> PICK s \in delivery[d] : PackageFilter(d)!(s)
    BY <1>4 DEF PackageFilter
  <2>1. s \in DeliveryType
    OBVIOUS
  <2>2. Head(s.stack) \in Registrations /\ Tail(s.stack) \in Seq(Registrations)
    <3>1. s.stack \in Seq(Registrations) /\ s.stack # <<>>
      BY <2>1 DEF DeliveryType
    <3> QED
      BY <3>1, HeadAndTail
  <2>3. [s EXCEPT !.pc = "raised"] \in DeliveryType
    BY <2>1 DEF DeliveryType
  <2>4. [s EXCEPT !.stack = Tail(@), !.passed = @ \cup {Head(s.stack)}] \in DeliveryType
    BY <2>1, <2>2 DEF DeliveryType
  <2>5. PICK t \in DeliveryType : Set(d, t) /\ t.pc # "write"
    BY <2>1, <2>3, <2>4 DEF DeliveryType
  <2> QED
    BY <2>5, GoesOn
<1>5. ASSUME NEW d \in Deliveries, ReadContent(d) PROVE TypeOK'
  <2> PICK s \in delivery[d] : ReadContent(d)!(s)
    BY <1>5 DEF ReadContent
  <2>1. s \in DeliveryType /\ message[s.message].content \in Contents
    BY DEF DeliveryType, MessageType
  <2>2. [s EXCEPT !.pc = "raised"] \in DeliveryType
    BY <2>1 DEF DeliveryType
  <2>3. [s EXCEPT !.pc = "write", !.read = {message[s.message].content}] \in DeliveryType
    BY <2>1 DEF DeliveryType
  <2>4. PICK t \in DeliveryType : Set(d, t) /\ t.stack # <<>> /\ Head(t.stack) \in First
    BY <2>1, <2>2, <2>3 DEF DeliveryType
  <2> QED
    BY <2>4, GoesOn
<1>6. ASSUME NEW d \in Deliveries, WriteContent(d) PROVE TypeOK'
  <2> PICK s \in delivery[d] : WriteContent(d)!(s)
    BY <1>6 DEF WriteContent
  <2> PICK content \in s.read : WriteContent(d)!(s)!(content)
    OBVIOUS
  <2>1. /\ s \in DeliveryType /\ content \in Contents
        /\ message[s.message] \in MessageType
    BY DEF DeliveryType
  <2>2. Head(s.stack) \in Registrations /\ Tail(s.stack) \in Seq(Registrations)
    <3>1. s.stack \in Seq(Registrations) /\ s.stack # <<>>
      BY <2>1 DEF DeliveryType
    <3> QED
      BY <3>1, HeadAndTail
  <2>3. [s EXCEPT !.pc = "filter", !.stack = Tail(@), !.read = {},
                  !.passed = @ \cup {Head(s.stack)}] \in DeliveryType
    BY <2>1, <2>2 DEF DeliveryType
  <2>4. message' \in [Messages -> MessageType]
    <3>1. ASSUME NEW new \in Wrapped(content)
          PROVE  [message[s.message] EXCEPT !.content = new] \in MessageType
      BY <2>1, WrappedType DEF MessageType
    <3>2. CASE ~NeedsWrapping(content)
      BY <3>2
    <3>3. CASE NeedsWrapping(content)
      <4> PICK new \in Wrapped(content) : message' = [message EXCEPT ![s.message].content = new]
        BY <3>3
      <4>1. message' = [message EXCEPT ![s.message] =
                            [message[s.message] EXCEPT !.content = new]]
        OBVIOUS
      <4> QED
        BY <3>1, <4>1
    <3> QED
      BY <3>2, <3>3
  <2>5. PICK t \in DeliveryType : Set(d, t) /\ t.pc # "write"
    BY <2>1, <2>3 DEF DeliveryType
  <2> QED
    BY <2>4, <2>5, GoesOn
<1>7. ASSUME NEW d \in Deliveries, Original(d) PROVE TypeOK'
  <2> PICK s \in delivery[d] : Original(d)!(s)
    BY <1>7 DEF Original
  <2>1. s \in DeliveryType /\ message[s.message].content \in Contents
    BY DEF DeliveryType, MessageType
  <2>2. [s EXCEPT !.pc = "delivered", !.read = {message[s.message].content}]
            \in DeliveryType
    BY <2>1 DEF DeliveryType
  <2>3. PICK t \in DeliveryType : Set(d, t) /\ t.pc # "write"
    BY <2>1, <2>2 DEF DeliveryType
  <2> QED
    BY <2>3, GoesOn
<1>8. CASE Done \/ UNCHANGED vars
  BY <1>8 DEF Done, vars
<1> QED
  BY <1>1, <1>2, <1>3, <1>4, <1>5, <1>6, <1>7, <1>8 DEF Next

\* Type correctness, for any number of agents, messages, filters and threads.
THEOREM TypeCorrect == Spec => []TypeOK
BY InitTypes, TypeStep, PTL DEF Spec
-------------------------------------------------------------------------------
\* What a message is now is at least as risky as it came.
RiskInv == \A m \in Messages : message[m].content.risk >= raw[m]

\* A registered filter stands before its agent, unless it was lost.
MethodInv ==
    \A r \in Registrations :
        reg[r].pc = "done" => r \in Elements(method[reg[r].agent]) \cup lost

\* What a delivery has read was as risky as the message came; a filter of the package
\* let it pass only if it came harmless enough; one of the first version left it
\* wrapped; and the filters it expects are behind it, before it, or lost.
DeliveryInv(s) ==
    /\ \A content \in s.read : content.risk >= raw[s.message]
    /\ s.passed \ (First \cup SystemTrust) # {} => raw[s.message] # 2
    /\ s.passed \cap First # {} /\ raw[s.message] >= 1 =>
            /\ message[s.message].content.wraps >= 1
            /\ s.pc = "delivered" => \A content \in s.read : content.wraps >= 1
    /\ s.expects \subseteq s.passed \cup Elements(s.stack) \cup lost
    /\ s.pc = "delivered" => s.stack = <<>>

Inv ==
    /\ RiskInv /\ MethodInv
    /\ \A d \in Deliveries : \A s \in delivery[d] : DeliveryInv(s)

\* Other threads cannot spoil a delivery: they take no wrapper away and lose more
\* filters, if any.
LEMMA Stable ==
    ASSUME NEW s \in DeliveryType, DeliveryInv(s), raw' = raw, lost \subseteq lost',
           \A m \in Messages : message[m].content.wraps >= 1
                                => message'[m].content.wraps >= 1
    PROVE  DeliveryInv(s)'
<1>1. s.message \in Messages
  BY DEF DeliveryType
<1> QED
  BY <1>1 DEF DeliveryInv

\* One delivery goes on and the others are stable.
LEMMA OthersStable ==
    ASSUME TypeOK, Inv, NEW d \in Deliveries, NEW t \in DeliveryType, Set(d, t),
           DeliveryInv(t)', raw' = raw, lost' = lost,
           \A m \in Messages : message[m].content.wraps >= 1
                                => message'[m].content.wraps >= 1
    PROVE  (\A e \in Deliveries : \A s \in delivery[e] : DeliveryInv(s))'
<1>1. \A e \in Deliveries : delivery'[e] = IF e = d THEN {t} ELSE delivery[e]
  BY DEF TypeOK, Set
<1>2. ASSUME NEW e \in Deliveries, NEW s \in delivery[e] PROVE DeliveryInv(s)'
  <2>1. s \in DeliveryType /\ DeliveryInv(s)
    BY DEF TypeOK, Inv
  <2> QED
    BY <2>1, Stable
<1> QED
  BY <1>1, <1>2

LEMMA InitInv == Init => Inv
<1> SUFFICES ASSUME Init PROVE Inv
  OBVIOUS
<1>1. \A m \in Messages : message[m].content.risk = raw[m] /\ raw[m] \in 0 .. 2
  BY DEF Init, Risks
<1> QED
  BY <1>1 DEF Init, Inv, RiskInv, MethodInv

LEMMA InvStep == TypeOK /\ TypeOK' /\ Inv /\ [Next]_vars => Inv'
<1> SUFFICES ASSUME TypeOK, TypeOK', Inv, [Next]_vars PROVE Inv'
  OBVIOUS
<1> USE FilterAssumption
<1>1. ASSUME NEW r \in Registrations, NEW a \in Agents, ReadOriginal(r, a) PROVE Inv'
  <2>1. MethodInv'
    BY <1>1 DEF ReadOriginal, TypeOK, Inv, MethodInv
  <2>2. RiskInv'
    BY <1>1 DEF ReadOriginal, Inv, RiskInv
  <2>3. ASSUME NEW d \in Deliveries, NEW s \in delivery'[d] PROVE DeliveryInv(s)'
    BY <1>1, <2>3 DEF ReadOriginal, Inv, DeliveryInv
  <2> QED
    BY <2>1, <2>2, <2>3 DEF Inv
<1>2. ASSUME NEW r \in Registrations, Replace(r) PROVE Inv'
  <2> DEFINE a == reg[r].agent
  <2>1. a \in Agents /\ reg[r].original \in Seq(Registrations) /\ reg[r].pc = "read"
    BY <1>2 DEF Replace, TypeOK
  <2>2. Elements(Stacked(r)) = {r} \cup Elements(reg[r].original)
    BY <2>1, StackedElements
  <2>3. /\ \A b \in Agents : method'[b] = IF b = a THEN Stacked(r) ELSE method[b]
        /\ lost' = lost \cup (Elements(method[a]) \ Elements(reg[r].original))
        /\ \A q \in Registrations \ {r} : reg'[q] = reg[q]
        /\ reg'[r].agent = a
        /\ UNCHANGED <<message, raw, delivery>>
    BY <1>2, <2>1 DEF Replace, TypeOK
  <2>4. MethodInv'
    <3> SUFFICES ASSUME NEW q \in Registrations, reg'[q].pc = "done"
                 PROVE  q \in Elements(method'[reg'[q].agent]) \cup lost'
      BY DEF MethodInv
    <3>1. CASE q = r
      BY <3>1, <2>1, <2>2, <2>3
    <3>2. CASE q # r
      <4>1. reg[q].agent \in Agents /\ reg'[q] = reg[q]
        BY <3>2, <2>3 DEF TypeOK
      <4>2. q \in Elements(method[reg[q].agent]) \cup lost
        BY <4>1 DEF Inv, MethodInv
      <4> QED
        BY <4>1, <4>2, <2>2, <2>3
    <3> QED
      BY <3>1, <3>2
  <2>5. RiskInv'
    BY <2>3 DEF Inv, RiskInv
  <2>6. ASSUME NEW d \in Deliveries, NEW s \in delivery[d] PROVE DeliveryInv(s)'
    <3>1. s \in DeliveryType /\ DeliveryInv(s)
      BY DEF TypeOK, Inv
    <3> QED
      BY <3>1, <2>3, Stable
  <2> QED
    BY <2>3, <2>4, <2>5, <2>6 DEF Inv
<1>3. ASSUME NEW d \in Deliveries, NEW a \in Agents, NEW m \in Messages, Deliver(d, a, m)
      PROVE  Inv'
  <2> DEFINE expected == {r \in Registrations : reg[r].pc = "done" /\ reg[r].agent = a}
  <2>1. UNCHANGED <<method, reg, message, raw, lost>>
    BY <1>3 DEF Deliver
  <2>2. PICK t \in DeliveryType :
            /\ Set(d, t) /\ t.pc = "filter" /\ t.stack = method[a] /\ t.message = m
            /\ t.read = {} /\ t.passed = {} /\ t.expects = expected
    BY <1>3 DEF Deliver, Set, TypeOK, DeliveryType
  <2>3. expected \subseteq Elements(method[a]) \cup lost
    BY DEF Inv, MethodInv
  <2>4. DeliveryInv(t)'
    BY <2>1, <2>2, <2>3 DEF DeliveryInv
  <2>5. MethodInv' /\ RiskInv'
    BY <2>1 DEF Inv, MethodInv, RiskInv
  <2>6. (\A e \in Deliveries : \A s \in delivery[e] : DeliveryInv(s))'
    BY <2>1, <2>2, <2>4, OthersStable
  <2> QED
    BY <2>5, <2>6 DEF Inv
<1>4. ASSUME NEW d \in Deliveries, PackageFilter(d) PROVE Inv'
  <2> PICK s \in delivery[d] : PackageFilter(d)!(s)
    BY <1>4 DEF PackageFilter
  <2>1. /\ s \in DeliveryType /\ DeliveryInv(s) /\ s.message \in Messages
        /\ s.stack \in Seq(Registrations) /\ s.stack # <<>>
    BY DEF TypeOK, DeliveryType, Inv
  <2>2. Elements(s.stack) \subseteq {Head(s.stack)} \cup Elements(Tail(s.stack))
    BY <2>1, HeadAndTail
  <2>3. MethodInv' /\ RiskInv'
    BY DEF Inv, MethodInv, RiskInv
  <2>4. CASE Stops(Head(s.stack), message[s.message].content)
    <3> DEFINE t == [s EXCEPT !.pc = "raised"]
    <3>1. t \in DeliveryType /\ Set(d, t)
      BY <2>1, <2>4 DEF DeliveryType
    <3>2. /\ t.pc = "raised" /\ t.stack = s.stack /\ t.passed = s.passed
          /\ t.read = s.read /\ t.message = s.message /\ t.expects = s.expects
      BY <2>1 DEF DeliveryType
    <3> HIDE DEF t
    <3>3. DeliveryInv(t)'
      BY <2>1, <3>2 DEF DeliveryInv
    <3> QED
      BY <2>3, <3>1, <3>3, OthersStable DEF Inv
  <2>5. CASE ~Stops(Head(s.stack), message[s.message].content)
    <3> DEFINE t == [s EXCEPT !.stack = Tail(@), !.passed = @ \cup {Head(s.stack)}]
    <3>1. Tail(s.stack) \in Seq(Registrations) /\ Head(s.stack) \in Registrations
      BY <2>1, HeadAndTail
    <3>2. t \in DeliveryType /\ Set(d, t)
      BY <2>1, <2>5, <3>1 DEF DeliveryType
    <3>3. /\ t.pc = "filter" /\ t.stack = Tail(s.stack)
          /\ t.passed = s.passed \cup {Head(s.stack)}
          /\ t.read = s.read /\ t.message = s.message /\ t.expects = s.expects
      BY <2>1 DEF DeliveryType
    <3> HIDE DEF t
    <3>4. Head(s.stack) \notin SystemTrust => raw[s.message] # 2
      <4>1. message[s.message].content.risk \in 0 .. 2 /\ raw[s.message] \in 0 .. 2
            /\ message[s.message].content.risk >= raw[s.message]
        BY <2>1 DEF TypeOK, MessageType, Contents, Risks, Inv, RiskInv
      <4> QED
        BY <4>1, <2>5 DEF Stops
    <3>5. DeliveryInv(t)'
      BY <2>1, <2>2, <3>3, <3>4 DEF DeliveryInv
    <3> QED
      BY <2>3, <3>2, <3>5, OthersStable DEF Inv
  <2> QED
    BY <2>4, <2>5
<1>5. ASSUME NEW d \in Deliveries, ReadContent(d) PROVE Inv'
  <2> PICK s \in delivery[d] : ReadContent(d)!(s)
    BY <1>5 DEF ReadContent
  <2>1. s \in DeliveryType /\ DeliveryInv(s) /\ s.message \in Messages
    BY DEF TypeOK, DeliveryType, Inv
  <2>2. MethodInv' /\ RiskInv'
    BY DEF Inv, MethodInv, RiskInv
  <2> DEFINE content == message[s.message].content
  <2>3. content \in Contents /\ content.risk >= raw[s.message]
    BY <2>1 DEF TypeOK, MessageType, Inv, RiskInv
  <2> HIDE DEF content
  <2>4. PICK t \in DeliveryType :
            /\ Set(d, t) /\ t.pc \in {"raised", "write"}
            /\ t.stack = s.stack /\ t.passed = s.passed
            /\ t.message = s.message /\ t.expects = s.expects
            /\ t.read = s.read \/ t.read = {content}
    <3>1. CASE message[s.message].form = "string"
      <4> DEFINE t == [s EXCEPT !.pc = "raised"]
      <4>1. Set(d, t)
        BY <3>1
      <4> QED
        BY <2>1, <4>1 DEF DeliveryType
    <3>2. CASE message[s.message].form # "string"
      <4> DEFINE t == [s EXCEPT !.pc = "write", !.read = {content}]
      <4>1. Set(d, t)
        BY <3>2 DEF content
      <4>2. t \in DeliveryType
        BY <2>1, <2>3 DEF DeliveryType
      <4>3. /\ t.pc = "write" /\ t.stack = s.stack /\ t.passed = s.passed
            /\ t.message = s.message /\ t.expects = s.expects /\ t.read = {content}
        BY <2>1 DEF DeliveryType
      <4> HIDE DEF t
      <4> QED
        BY <4>1, <4>2, <4>3
    <3> QED
      BY <3>1, <3>2
  <2>5. DeliveryInv(t)'
    BY <2>1, <2>3, <2>4 DEF DeliveryInv
  <2> QED
    BY <2>2, <2>4, <2>5, OthersStable DEF Inv
<1>6. ASSUME NEW d \in Deliveries, WriteContent(d) PROVE Inv'
  <2> PICK s \in delivery[d] : WriteContent(d)!(s)
    BY <1>6 DEF WriteContent
  <2> PICK content \in s.read : WriteContent(d)!(s)!(content)
    OBVIOUS
  <2>1. /\ s \in DeliveryType /\ DeliveryInv(s) /\ s.message \in Messages
        /\ s.stack \in Seq(Registrations) /\ s.stack # <<>> /\ content \in Contents
        /\ content.risk >= raw[s.message] /\ raw[s.message] \in 0 .. 2
        /\ Head(s.stack) \in First
    BY DEF TypeOK, DeliveryType, Inv, DeliveryInv, Risks
  <2>2. /\ Head(s.stack) \in Registrations /\ Tail(s.stack) \in Seq(Registrations)
        /\ Elements(s.stack) \subseteq {Head(s.stack)} \cup Elements(Tail(s.stack))
    BY <2>1, HeadAndTail
  <2>3. /\ \A m \in Messages \ {s.message} : message'[m] = message[m]
        /\ IF NeedsWrapping(content)
           THEN message'[s.message].content \in Wrapped(content)
           ELSE message'[s.message] = message[s.message]
    <3>1. CASE ~NeedsWrapping(content)
      BY <3>1
    <3>2. CASE NeedsWrapping(content)
      <4> PICK new \in Wrapped(content) : message' = [message EXCEPT ![s.message].content = new]
        BY <3>2
      <4>1. message' = [message EXCEPT ![s.message] =
                            [message[s.message] EXCEPT !.content = new]]
        OBVIOUS
      <4>2. message[s.message] \in MessageType
        BY <2>1 DEF TypeOK
      <4>3. [message[s.message] EXCEPT !.content = new].content = new
        BY <4>2 DEF MessageType
      <4> QED
        BY <2>1, <3>2, <4>1, <4>3 DEF TypeOK
    <3> QED
      BY <3>1, <3>2
  <2>4. NeedsWrapping(content) =>
            /\ message'[s.message].content.risk >= raw[s.message]
            /\ message'[s.message].content.wraps >= 1
    <3>1. ASSUME NEW new \in Wrapped(content)
          PROVE  new.risk \in 0 .. 2 /\ new.risk >= content.risk /\ new.wraps >= 1
      BY <2>1, WrappedType DEF Contents, Risks
    <3>2. content.risk \in 0 .. 2
      BY <2>1 DEF Contents, Risks
    <3> QED
      BY <2>1, <2>3, <3>1, <3>2
  <2>5. RiskInv' /\ MethodInv'
    BY <2>1, <2>3, <2>4 DEF Inv, RiskInv, MethodInv
  <2>6. \A m \in Messages : message[m].content.wraps >= 1 => message'[m].content.wraps >= 1
    BY <2>1, <2>3, <2>4
  <2> DEFINE t == [s EXCEPT !.pc = "filter", !.stack = Tail(@), !.read = {},
                            !.passed = @ \cup {Head(s.stack)}]
  <2>7. t \in DeliveryType /\ Set(d, t)
    BY <2>1, <2>2 DEF DeliveryType
  <2>8. /\ t.pc = "filter" /\ t.stack = Tail(s.stack)
        /\ t.passed = s.passed \cup {Head(s.stack)}
        /\ t.read = {} /\ t.message = s.message /\ t.expects = s.expects
    BY <2>1 DEF DeliveryType
  <2> HIDE DEF t
  <2>9. raw[s.message] >= 1 => message'[s.message].content.wraps >= 1
    <3>1. raw[s.message] >= 1 => NeedsWrapping(content)
      BY <2>1 DEF NeedsWrapping, Contents, Risks
    <3> QED
      BY <2>4, <3>1
  <2>10. DeliveryInv(t)'
    BY <2>1, <2>2, <2>8, <2>9 DEF DeliveryInv
  <2> QED
    BY <2>5, <2>6, <2>7, <2>10, OthersStable DEF Inv
<1>7. ASSUME NEW d \in Deliveries, Original(d) PROVE Inv'
  <2> PICK s \in delivery[d] : Original(d)!(s)
    BY <1>7 DEF Original
  <2>1. /\ s \in DeliveryType /\ DeliveryInv(s) /\ s.message \in Messages
        /\ message[s.message].content \in Contents
        /\ message[s.message].content.risk >= raw[s.message]
    BY DEF TypeOK, DeliveryType, MessageType, Inv, RiskInv
  <2>2. PICK t \in DeliveryType :
            /\ Set(d, t) /\ t.pc = "delivered" /\ t.stack = <<>> /\ t.passed = s.passed
            /\ t.read = {message[s.message].content}
            /\ t.message = s.message /\ t.expects = s.expects
    <3> DEFINE t == [s EXCEPT !.pc = "delivered", !.read = {message[s.message].content}]
    <3>1. t \in DeliveryType
      BY <2>1 DEF DeliveryType
    <3>2. /\ t.pc = "delivered" /\ t.stack = <<>> /\ t.passed = s.passed
          /\ t.read = {message[s.message].content}
          /\ t.message = s.message /\ t.expects = s.expects
      BY <2>1 DEF DeliveryType
    <3>3. Set(d, t)
      OBVIOUS
    <3> HIDE DEF t
    <3> QED
      BY <3>1, <3>2, <3>3
  <2>3. MethodInv' /\ RiskInv'
    BY DEF Inv, MethodInv, RiskInv
  <2>4. DeliveryInv(t)'
    BY <2>1, <2>2 DEF DeliveryInv
  <2>5. (\A e \in Deliveries : \A r \in delivery[e] : DeliveryInv(r))'
    BY <2>2, <2>4, OthersStable
  <2> QED
    BY <2>3, <2>5 DEF Inv
<1>8. CASE Done \/ UNCHANGED vars
  BY <1>8 DEF Done, vars, Inv, RiskInv, MethodInv, DeliveryInv
<1> QED
  BY <1>1, <1>2, <1>3, <1>4, <1>5, <1>6, <1>7, <1>8 DEF Next

LEMMA SpecInv == Spec => [](TypeOK /\ Inv)
BY InitInv, InvStep, TypeCorrect, PTL DEF Spec

\* However many filters are registered, a message reaches an agent only past all of
\* them, except those that an overlapping registration has undone.
THEOREM AllFiltersPassed == Spec => []EveryFilterPassed
<1>1. TypeOK /\ Inv => EveryFilterPassed
  BY DEF TypeOK, Inv, DeliveryInv, EveryFilterPassed, Delivered, Elements
<1> QED
  BY <1>1, SpecInv, PTL

\* What came risky is wrapped when it arrives behind a filter of the first version,
\* whatever other threads write into the same message.
THEOREM RiskyStaysWrapped == Spec => []RiskyNeverPlain
<1>1. TypeOK /\ Inv => RiskyNeverPlain
  BY DEF Inv, DeliveryInv, RiskyNeverPlain, Delivered
<1> QED
  BY <1>1, SpecInv, PTL

\* A filter of the package stops what it would have stopped alone, wherever in the
\* stack it stands.
THEOREM BlockedStaysBlocked == Spec => []BlockedNeverDelivered
<1>1. TypeOK /\ Inv => BlockedNeverDelivered
  BY DEF Inv, DeliveryInv, BlockedNeverDelivered, Delivered
<1> QED
  BY <1>1, SpecInv, PTL
-------------------------------------------------------------------------------
\* An agent with a filter registered has one in front of its method: a replacement may
\* drop filters, but stands there itself.
Guarded(r) == reg[r].pc = "done" => Elements(method[reg[r].agent]) # {}

LEMMA GuardedStep ==
    TypeOK /\ TypeOK' /\ (\A r \in Registrations : Guarded(r)) /\ [Next]_vars
        => (\A r \in Registrations : Guarded(r))'
<1> SUFFICES ASSUME TypeOK, TypeOK', \A r \in Registrations : Guarded(r), [Next]_vars,
                    NEW q \in Registrations
             PROVE  Guarded(q)'
  OBVIOUS
<1>1. Guarded(q)
  OBVIOUS
<1>2. ASSUME NEW r \in Registrations, NEW a \in Agents, ReadOriginal(r, a) PROVE Guarded(q)'
  BY <1>1, <1>2 DEF ReadOriginal, TypeOK, Guarded
<1>3. ASSUME NEW r \in Registrations, Replace(r) PROVE Guarded(q)'
  <2>1. reg[r].agent \in Agents /\ reg[r].original \in Seq(Registrations)
    BY <1>3 DEF Replace, TypeOK
  <2>2. Elements(Stacked(r)) # {}
    BY <2>1, StackedElements
  <2>3. /\ \A b \in Agents : method'[b] = IF b = reg[r].agent THEN Stacked(r) ELSE method[b]
        /\ reg'[r].agent = reg[r].agent
        /\ q # r => reg'[q] = reg[q]
    BY <1>3, <2>1 DEF Replace, TypeOK
  <2>4. reg'[q].pc = "done" => reg'[q].agent \in Agents
    BY DEF TypeOK
  <2> QED
    BY <1>1, <2>2, <2>3, <2>4 DEF Guarded
<1>4. CASE UNCHANGED <<method, reg>>
  BY <1>1, <1>4 DEF Guarded
<1>5. CASE \E d \in Deliveries :
            \/ \E a \in Agents, m \in Messages : Deliver(d, a, m)
            \/ PackageFilter(d) \/ ReadContent(d) \/ WriteContent(d) \/ Original(d)
  BY <1>4, <1>5 DEF Deliver, PackageFilter, ReadContent, WriteContent, Original
<1> QED
  BY <1>2, <1>3, <1>4, <1>5 DEF Next, Done, vars

\* A filter only disappears by a registration that overlapped with its own, and never
\* leaves its agent without any.
THEOREM LossNeedsOverlap == Spec => []LostToOverlap
<1>1. Init => \A r \in Registrations : Guarded(r)
  BY DEF Init, Guarded
<1>2. TypeOK /\ TypeOK' /\ (\A r \in Registrations : Guarded(r)) /\ [Next]_vars
        => (\A r \in Registrations : Guarded(r))'
  BY GuardedStep
<1>3. TypeOK /\ Inv /\ (\A r \in Registrations : Guarded(r)) => LostToOverlap
  BY DEF Inv, MethodInv, Guarded, LostToOverlap
<1> QED
  BY <1>1, <1>2, <1>3, TypeCorrect, SpecInv, PTL DEF Spec
===============================================================================
