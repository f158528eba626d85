--------------------------- MODULE FailoverProofs ---------------------------
(***************************************************************************)
(* What works is not taken out: members that live and answer stay in the   *)
(* list of their group and their leader at its head, hosts and data        *)
(* sources are given up for a cause.  For any number of instances, hosts,  *)
(* sources and threads, any bounds and any faults.                         *)
(***************************************************************************)
EXTENDS Failover, ListTheorems

-----------------------------------------------------------------------------
(* What the lists contain that the model builds                            *)

\* The list without e has the other elements and nothing else, and its head
\* if that is another element.
LEMMA WithoutProperties ==
  ASSUME NEW T, NEW s \in Seq(T), NEW e
  PROVE  /\ Without(s, e) \in Seq(T)
         /\ \A x : Contains(Without(s, e), x) <=> Contains(s, x) /\ x # e
         /\ s # <<>> /\ Head(s) # e => /\ Without(s, e) # <<>>
                                       /\ Head(Without(s, e)) = Head(s)
  <1> DEFINE S == ToSet(s) \ {e}
  <1>1. Only(s, S) \in Seq(T)
    <2>1. Only(s, S) \in Seq(T \cap S)
      BY OnlyType
    <2>2. QED
      BY <2>1, SeqMonotonic
  <1>2. \A x : Contains(s, x) <=> x \in ToSet(s)
    BY ContainsToSet
  <1>3. \A x : Contains(Only(s, S), x) <=> Contains(s, x) /\ x \in S
    BY OnlyContains
  <1>4. s # <<>> => Head(s) \in ToSet(s)
    <2>1. s # <<>> => Len(s) > 0 /\ Head(s) = s[1]
      BY EmptySeq, LenProperties
    <2>2. QED
      BY <2>1, LenProperties DEF ToSet
  <1>5. s # <<>> /\ Head(s) \in S => Only(s, S) # <<>> /\ Head(Only(s, S)) = Head(s)
    BY OnlyHead
  <1>6. QED
    BY <1>1, <1>2, <1>3, <1>4, <1>5 DEF Without

\* A list without its i-th element.
LEMMA RemoveAtProperties ==
  ASSUME NEW T, NEW s \in Seq(T), NEW i \in 1 .. Len(s)
  PROVE  /\ RemoveAt(s, i) \in Seq(T)
         /\ Len(RemoveAt(s, i)) = Len(s) - 1
         /\ \A k \in 1 .. i - 1 : RemoveAt(s, i)[k] = s[k]
         /\ \A k \in i .. Len(s) - 1 : RemoveAt(s, i)[k] = s[k + 1]
  <1> PICK l \in Nat : l = Len(s)
    BY LenProperties
  <1> DEFINE a == SubSeq(s, 1, i - 1)
             b == SubSeq(s, i + 1, l)
  <1>1. /\ a \in Seq(T) /\ Len(a) = i - 1
        /\ \A k \in 1 .. i - 1 : a[k] = s[k]
    BY SubSeqProperties
  <1>2. /\ b \in Seq(T) /\ Len(b) = l - i
        /\ \A k \in 1 .. l - i : b[k] = s[k + i]
    BY SubSeqProperties
  <1>3. RemoveAt(s, i) = a \o b
    BY DEF RemoveAt
  <1> HIDE DEF a, b
  <1>4. /\ a \o b \in Seq(T) /\ Len(a \o b) = l - 1
        /\ \A k \in 1 .. l - 1 : (a \o b)[k] = IF k <= i - 1 THEN a[k] ELSE b[k - (i - 1)]
    BY <1>1, <1>2, ConcatProperties
  <1>5. ASSUME NEW k \in i .. l - 1 PROVE (a \o b)[k] = s[k + 1]
    <2>1. (a \o b)[k] = b[k - (i - 1)]
      BY <1>4, <1>5
    <2>2. b[k - (i - 1)] = s[k - (i - 1) + i]
      BY <1>2, <1>5
    <2>3. k - (i - 1) + i = k + 1
      BY <1>5
    <2>4. QED
      BY <2>1, <2>2, <2>3
  <1>6. QED
    BY <1>1, <1>3, <1>4, <1>5

\* RemoveFirst takes nothing out but e, adds nothing, and leaves another head.
LEMMA RemoveFirstProperties ==
  ASSUME NEW T, NEW s \in Seq(T), NEW e
  PROVE  /\ RemoveFirst(s, e) \in Seq(T)
         /\ \A x : Contains(RemoveFirst(s, e), x) => Contains(s, x)
         /\ \A x : Contains(s, x) /\ x # e => Contains(RemoveFirst(s, e), x)
         /\ s # <<>> /\ Head(s) # e => /\ RemoveFirst(s, e) # <<>>
                                       /\ Head(RemoveFirst(s, e)) = Head(s)
  <1> PICK l \in Nat : l = Len(s)
    BY LenProperties
  <1>1. CASE ~ \E i \in 1 .. l : s[i] = e
    BY <1>1 DEF RemoveFirst
  <1>2. CASE \E i \in 1 .. l : s[i] = e
    <2> DEFINE at == {i \in 1 .. l : s[i] = e}
    <2>1. \E n \in at : \A m \in at : n <= m
      <3>1. at \subseteq Nat /\ at # {}
        BY <1>2
      <3> HIDE DEF at
      <3>2. QED
        BY <3>1, LeastNat
    <2>2. Min(at) \in at
      BY <2>1 DEF Min
    <2>3. RemoveFirst(s, e) = RemoveAt(s, Min(at))
      BY <1>2 DEF RemoveFirst, SelectInSeq
    <2>4. PICK i \in 1 .. l : s[i] = e /\ RemoveFirst(s, e) = RemoveAt(s, i)
      BY <2>2, <2>3
    <2> DEFINE q == RemoveFirst(s, e)
    <2>5. /\ q \in Seq(T) /\ Len(q) = l - 1
          /\ \A k \in 1 .. i - 1 : q[k] = s[k]
          /\ \A k \in i .. l - 1 : q[k] = s[k + 1]
      <3> DEFINE p == RemoveAt(s, i)
      <3>0. l = Len(s) /\ i \in 1 .. Len(s)
        OBVIOUS
      <3> HIDE DEF q, at
      <3>1. /\ p \in Seq(T) /\ Len(p) = l - 1
            /\ \A k \in 1 .. i - 1 : p[k] = s[k]
            /\ \A k \in i .. l - 1 : p[k] = s[k + 1]
        BY <3>0, RemoveAtProperties
      <3>2. q = p
        BY <2>4 DEF q
      <3> HIDE DEF p
      <3>3. QED
        BY <3>1, <3>2
    <2> HIDE DEF q, at
    <2>6. \A x : Contains(q, x) => Contains(s, x)
      BY <2>5 DEF Contains
    <2>7. ASSUME NEW x, Contains(s, x), x # e PROVE Contains(q, x)
      <3>1. PICK k \in 1 .. l : s[k] = x
        BY <2>7 DEF Contains
      <3>2. k # i
        BY <2>4, <2>7, <3>1
      <3>3. CASE k < i
        BY <2>5, <3>1, <3>3 DEF Contains
      <3>4. CASE k > i
        <4>1. k - 1 \in i .. l - 1 /\ k - 1 \in 1 .. l - 1 /\ (k - 1) + 1 = k
          BY <3>4
        <4>2. q[k - 1] = x
          BY <2>5, <3>1, <4>1
        <4>3. QED
          BY <2>5, <4>1, <4>2 DEF Contains
      <3>5. QED
        BY <3>2, <3>3, <3>4
    <2>8. ASSUME s # <<>>, Head(s) # e PROVE q # <<>> /\ Head(q) = Head(s)
      <3>1. l > 0 /\ s[1] # e /\ Head(s) = s[1]
        BY <2>8, EmptySeq
      <3>2. i > 1
        BY <2>4, <3>1
      <3>3. q[1] = s[1] /\ Len(q) > 0
        BY <2>5, <3>2
      <3>4. QED
        BY <2>5, <3>1, <3>3, EmptySeq
    <2>9. QED
      BY <2>5, <2>6, <2>7, <2>8 DEF q
  <1>3. QED
    BY <1>1, <1>2

LEMMA AppendType ==
  ASSUME NEW T, NEW s \in Seq(T), NEW y \in T
  PROVE  /\ Append(s, y) \in Seq(T)
         /\ s # <<>> => Append(s, y) # <<>> /\ Head(Append(s, y)) = Head(s)
  <1> PICK l \in Nat : l = Len(s)
    BY LenProperties
  <1> DEFINE q == Append(s, y)
  <1>1. /\ q \in Seq(T) /\ q # <<>> /\ Len(q) = l + 1
        /\ \A k \in 1 .. l : q[k] = s[k]
    BY AppendProperties
  <1> HIDE DEF q
  <1>2. s # <<>> => Head(q) = Head(s)
    <2>1. s # <<>> => l > 0
      BY EmptySeq
    <2>2. QED
      BY <1>1, <2>1
  <1>3. QED
    BY <1>1, <1>2 DEF q

LEMMA ConcatContains ==
  ASSUME NEW T, NEW s \in Seq(T), NEW t \in Seq(T)
  PROVE  /\ s \o t \in Seq(T)
         /\ \A x : Contains(s \o t, x) <=> Contains(s, x) \/ Contains(t, x)
  <1> PICK l \in Nat, n \in Nat : l = Len(s) /\ n = Len(t)
    BY LenProperties
  <1> DEFINE q == s \o t
  <1>1. /\ q \in Seq(T) /\ Len(q) = l + n
        /\ \A k \in 1 .. l + n : q[k] = IF k <= l THEN s[k] ELSE t[k - l]
    BY ConcatProperties
  <1> HIDE DEF q
  <1>2. \A x : Contains(q, x) => Contains(s, x) \/ Contains(t, x)
    BY <1>1 DEF Contains
  <1>3. ASSUME NEW x, Contains(s, x) PROVE Contains(q, x)
    <2>1. PICK k \in 1 .. l : s[k] = x
      BY <1>3 DEF Contains
    <2>2. k \in 1 .. l + n /\ q[k] = x
      BY <1>1, <2>1
    <2>3. QED
      BY <1>1, <2>2 DEF Contains
  <1>4. ASSUME NEW x, Contains(t, x) PROVE Contains(q, x)
    <2>1. PICK k \in 1 .. n : t[k] = x
      BY <1>4 DEF Contains
    <2>2. k + l \in 1 .. l + n /\ ~ (k + l <= l) /\ (k + l) - l = k
      OBVIOUS
    <2>3. q[k + l] = x
      BY <1>1, <2>1, <2>2
    <2>4. QED
      BY <1>1, <2>2, <2>3 DEF Contains
  <1>5. QED
    BY <1>1, <1>2, <1>3, <1>4 DEF q

LEMMA OneContains == ASSUME NEW T, NEW y \in T
                     PROVE  /\ <<y>> \in Seq(T)
                            /\ \A x : Contains(<<y>>, x) <=> x = y
  <1>1. <<y>> \in Seq(T) /\ Len(<<y>>) = 1 /\ <<y>>[1] = y
    OBVIOUS
  <1>2. QED
    BY <1>1 DEF Contains

LEMMA TailContains ==
  ASSUME NEW T, NEW s \in Seq(T), s # <<>>
  PROVE  /\ Head(s) \in T /\ Contains(s, Head(s))
         /\ Tail(s) \in Seq(T)
         /\ \A x : Contains(Tail(s), x) => Contains(s, x)
  <1> PICK l \in Nat : l = Len(s) /\ l > 0
    BY LenProperties, EmptySeq
  <1>1. Head(s) = s[1] /\ s[1] \in T
    BY ElementOfSeq
  <1> DEFINE q == Tail(s)
  <1>2. q \in Seq(T) /\ Len(q) = l - 1 /\ \A k \in 1 .. l - 1 : q[k] = s[k + 1]
    <2>1. /\ q \in Seq(T) /\ Len(q) = Len(s) - 1
          /\ \A k \in 1 .. Len(q) : q[k] = s[k + 1]
      BY HeadTailProperties
    <2>2. QED
      BY <2>1
  <1> HIDE DEF q
  <1>3. \A x : Contains(q, x) => Contains(s, x)
    BY <1>2 DEF Contains
  <1>4. QED
    BY <1>1, <1>2, <1>3 DEF q, Contains

-----------------------------------------------------------------------------
(* The members of a group.  A command that removes a member is sent long   *)
(* after the snapshot and the ping it comes from.  It does no harm, since  *)
(* a member is pinged only if it was listed, so that it has started, and   *)
(* is given up only if a ping missed it or if it is dead: another instance *)
(* that answers at its address, or nobody there, means that it is not up,  *)
(* and an incarnation that has died does not come back.                    *)

Stages == {"new", "started", "joining", "pushed", "in", "leaving", "out", "stopping", "dead"}

Known(l, p) == \A x \in Id : Contains(l, x) => p[x] # "new"

Harmless(c, p, u) == /\ p[c.id] # "new"
                     /\ c.op = "remove" => p[c.id] = "dead" \/ c.id \in u

Fine(h, p, u) == /\ h \in Heartbeat
                 /\ Known(h.todo, p)
                 /\ \A c \in Command : Contains(h.commands, c) => Harmless(c, p, u)

OneUpAtAnAddress == \A i, j \in Id : Up(i) /\ Up(j) /\ Address[i] = Address[j] => i = j

MemberInv == /\ list \in Seq(Id)
             /\ pc \in [Id -> Stages]
             /\ heartbeat = [i \in Id |-> heartbeat[i]]
             /\ Known(list, pc)
             /\ \A i \in Id : Fine(heartbeat[i], pc, suspected)
             /\ OneUpAtAnAddress

LEMMA InitMemberInv == Init => MemberInv
  <1> SUFFICES ASSUME Init PROVE MemberInv
    OBVIOUS
  <1>1. <<>> \in Seq(Id) /\ <<>> \in Seq(Command)
    BY EmptySeq
  <1>2. Idle \in Heartbeat
    BY <1>1 DEF Idle, Heartbeat
  <1>3. Fine(Idle, pc, suspected)
    BY <1>2, EmptyContains DEF Fine, Known, Idle
  <1>4. QED
    BY <1>1, <1>3, EmptyContains
       DEF Init, MemberInv, Stages, Known, OneUpAtAnAddress, Up

\* What is harmless remains so while instances live and die.
LEMMA StaysFine ==
  ASSUME NEW h, NEW p, NEW q, NEW u, NEW v, Fine(h, p, u), u \subseteq v,
         \A x \in Id : /\ p[x] # "new" => q[x] # "new"
                       /\ p[x] = "dead" => q[x] = "dead"
  PROVE  Fine(h, q, v)
  BY DEF Fine, Known, Harmless, Command

\* What is left of a heartbeat is harmless if its parts are.
LEMMA RemainingFine ==
  ASSUME NEW p, NEW u, NEW seen \in SUBSET Id,
         NEW todo \in Seq(Id), NEW commands \in Seq(Command), Known(todo, p),
         \A c \in Command : Contains(commands, c) => Harmless(c, p, u)
  PROVE  Fine(Remaining(seen, todo, commands), p, u)
  <1> DEFINE h == [members |-> seen, todo |-> todo, commands |-> commands]
  <1>1. Fine(h, p, u)
    BY DEF Fine, Heartbeat
  <1>2. Fine(Idle, p, u)
    <2>1. <<>> \in Seq(Id) /\ <<>> \in Seq(Command)
      BY EmptySeq
    <2>2. QED
      BY <2>1, EmptyContains DEF Fine, Known, Idle, Heartbeat
  <1>3. QED
    BY <1>1, <1>2 DEF Remaining

\* What no step of a group may do, as the properties have it.
Kept == \A i \in Joined \ suspected : Contains(list, i) /\ pc'[i] = "in"
                                        => Contains(list', i)

Led == list # <<>> /\ Head(list) \in Joined \ suspected /\ pc'[Head(list)] = "in"
       => \/ list' # <<>> /\ Head(list') = Head(list)
          \/ \E i \in Id : JoinPush(i)

MemberStep == MemberInv' /\ Kept /\ Led

\* The heartbeats are not disturbed by what becomes of an instance.
LEMMA LifeStep ==
  ASSUME MemberInv, NEW i \in Id, NEW l, Goto(i, l), l \in Stages \ {"new"},
         pc[i] # "dead", suspected' = suspected,
         heartbeat' = heartbeat \/ heartbeat' = [heartbeat EXCEPT ![i] = Idle]
  PROVE  /\ pc' \in [Id -> Stages]
         /\ heartbeat' = [j \in Id |-> heartbeat'[j]]
         /\ \A j \in Id : Fine(heartbeat'[j], pc', suspected')
         /\ Known(list, pc') /\ pc'[i] = l
         /\ \A j \in Id \ {i} : pc'[j] = pc[j]
  <1>1. /\ pc' = [pc EXCEPT ![i] = l] /\ pc \in [Id -> Stages]
        /\ heartbeat = [j \in Id |-> heartbeat[j]]
    BY DEF Goto, MemberInv
  <1>2. \A x \in Id : /\ pc[x] # "new" => pc'[x] # "new"
                      /\ pc[x] = "dead" => pc'[x] = "dead"
    BY <1>1
  <1>3. \A j \in Id : Fine(heartbeat[j], pc', suspected')
    <2>1. \A j \in Id : Fine(heartbeat[j], pc, suspected)
      BY DEF MemberInv
    <2>2. QED
      BY <1>2, <2>1, StaysFine
  <1>4. Fine(Idle, pc', suspected')
    <2>1. <<>> \in Seq(Id) /\ <<>> \in Seq(Command)
      BY EmptySeq
    <2>2. QED
      BY <2>1, EmptyContains DEF Fine, Known, Idle, Heartbeat
  <1>5. \A j \in Id : Fine(heartbeat'[j], pc', suspected')
    BY <1>1, <1>3, <1>4
  <1>6. Known(list, pc')
    BY <1>2 DEF MemberInv, Known
  <1>7. QED
    BY <1>1, <1>5, <1>6

\* Every step of a group keeps the invariant, the members and the leader.
LEMMA MembersStep == ASSUME MemberInv, Next PROVE MemberStep
  <1>list. list \in Seq(Id) /\ Known(list, pc)
    BY DEF MemberInv
  <1>1. ASSUME NEW i \in Id, Start(i) PROVE MemberStep
    <2>1. /\ pc[i] = "new" /\ Goto(i, "started")
          /\ list' = list /\ heartbeat' = heartbeat /\ suspected' = suspected
      BY <1>1 DEF Start
    <2>2. MemberInv'
      <3>1. OneUpAtAnAddress'
        BY <1>1, <2>1 DEF Start, OneUpAtAnAddress, MemberInv, Goto, Up
      <3>2. QED
        BY <1>list, <2>1, <3>1, LifeStep DEF MemberInv, Stages
    <2>3. QED
      BY <2>1, <2>2 DEF MemberStep, Kept, Led
  <1>2. ASSUME NEW i \in Id, NEW l \in {"in", "out", "joining", "pushed", "leaving", "stopping", "dead"},
               Goto(i, l), Up(i), suspected' = suspected,
               heartbeat' = heartbeat \/ heartbeat' = [heartbeat EXCEPT ![i] = Idle],
               list' \in Seq(Id), \A x \in Id : Contains(list', x) => x = i \/ Contains(list, x)
        PROVE  MemberInv'
    <2>1. l \in Stages \ {"new"} /\ pc[i] # "dead"
      BY <1>2 DEF Stages, Up
    <2>2. /\ pc' \in [Id -> Stages]
          /\ heartbeat' = [j \in Id |-> heartbeat'[j]]
          /\ \A j \in Id : Fine(heartbeat'[j], pc', suspected')
          /\ Known(list, pc') /\ pc'[i] = l
          /\ \A j \in Id \ {i} : pc'[j] = pc[j]
      BY <1>2, <2>1, LifeStep
    <2>3. OneUpAtAnAddress'
      BY <1>2, <2>2 DEF OneUpAtAnAddress, MemberInv, Up
    <2>4. Known(list', pc')
      BY <1>2, <2>1, <2>2 DEF Known
    <2>5. QED
      BY <1>2, <2>2, <2>3, <2>4 DEF MemberInv
  \* What the caller of join, leave or destroy removes is itself.
  <1>3. ASSUME NEW i \in Id, JoinRemove(i) PROVE MemberStep
    <2>1. /\ Goto(i, "joining") /\ Up(i) /\ i \notin Joined
          /\ list' = RemoveFirst(list, i)
          /\ heartbeat' = heartbeat /\ suspected' = suspected
      BY <1>3 DEF JoinRemove, Up, Joined
    <2>2. /\ list' \in Seq(Id)
          /\ \A x \in Id : Contains(list', x) => Contains(list, x)
          /\ \A x \in Id : Contains(list, x) /\ x # i => Contains(list', x)
          /\ list # <<>> /\ Head(list) # i => list' # <<>> /\ Head(list') = Head(list)
      BY <1>list, <2>1, RemoveFirstProperties
    <2>3. MemberInv'
      BY <1>2, <2>1, <2>2
    <2>4. QED
      BY <2>1, <2>2, <2>3 DEF MemberStep, Kept, Led, Joined
  <1>4. ASSUME NEW i \in Id, JoinPush(i) PROVE MemberStep
    <2>1. /\ Goto(i, "pushed") /\ Up(i)
          /\ list' = <<i>> \o list
          /\ heartbeat' = heartbeat /\ suspected' = suspected
      BY <1>4 DEF JoinPush, Up
    <2>2. <<i>> \in Seq(Id) /\ \A x : Contains(<<i>>, x) <=> x = i
      BY OneContains
    <2>3. list' \in Seq(Id) /\ \A x : Contains(list', x) <=> x = i \/ Contains(list, x)
      BY <1>list, <2>1, <2>2, ConcatContains
    <2>4. MemberInv'
      BY <1>2, <2>1, <2>3
    <2>5. QED
      BY <1>4, <2>3, <2>4 DEF MemberStep, Kept, Led, Joined
  <1>5. ASSUME NEW i \in Id, JoinAdd(i) \/ LeaveForget(i) \/ Die(i) PROVE MemberStep
    <2>1. PICK l \in {"in", "out", "dead"} :
            /\ Goto(i, l) /\ Up(i) /\ list' = list /\ suspected' = suspected
            /\ heartbeat' = heartbeat \/ heartbeat' = [heartbeat EXCEPT ![i] = Idle]
      BY <1>5 DEF JoinAdd, LeaveForget, Die, Up
    <2>2. MemberInv'
      BY <1>list, <1>2, <2>1
    <2>3. QED
      BY <2>1, <2>2 DEF MemberStep, Kept, Led
  <1>6. ASSUME NEW i \in Id, LeaveRemove(i) \/ Destroy(i) PROVE MemberStep
    <2>1. PICK l \in {"leaving", "stopping"} :
            /\ Goto(i, l) /\ Up(i) /\ list' = Without(list, i)
            /\ heartbeat' = heartbeat /\ suspected' = suspected
      BY <1>6 DEF LeaveRemove, Destroy, Up
    <2>2. /\ list' \in Seq(Id)
          /\ \A x : Contains(list', x) <=> Contains(list, x) /\ x # i
          /\ list # <<>> /\ Head(list) # i => list' # <<>> /\ Head(list') = Head(list)
      BY <1>list, <2>1, WithoutProperties
    <2>3. MemberInv'
      BY <1>2, <2>1, <2>2
    <2>4. pc'[i] # "in"
      BY <2>1 DEF Goto, MemberInv
    <2>5. QED
      BY <2>2, <2>3, <2>4 DEF MemberStep, Kept, Led, Joined
  \* A step of a heartbeat that leaves the list and the instances alone.
  <1>7. ASSUME NEW i \in Id, UNCHANGED <<list, pc>>, suspected \subseteq suspected',
               NEW h, heartbeat' = [heartbeat EXCEPT ![i] = h], Fine(h, pc, suspected')
        PROVE  MemberStep
    <2>1. \A j \in Id : Fine(heartbeat[j], pc, suspected')
      BY <1>7, StaysFine DEF MemberInv
    <2>2. /\ heartbeat' = [j \in Id |-> heartbeat'[j]]
          /\ \A j \in Id : Fine(heartbeat'[j], pc, suspected')
      BY <1>7, <2>1 DEF MemberInv
    <2>3. MemberInv'
      BY <1>7, <2>2 DEF MemberInv, OneUpAtAnAddress, Up
    <2>4. QED
      BY <1>7, <2>3 DEF MemberStep, Kept, Led
  <1>8. ASSUME NEW i \in Id, Begin(i) PROVE MemberStep
    <2> DEFINE todo == Without(list, i)
               commands == IF Contains(list, i) THEN <<>> ELSE <<Push(i)>>
    <2>1. todo \in Seq(Id) /\ Known(todo, pc)
      BY <1>list, WithoutProperties DEF Known
    <2>2. Push(i) \in Command /\ Harmless(Push(i), pc, suspected)
      BY <1>8 DEF Push, Command, Harmless, Begin, InGroups
    <2>3. /\ commands \in Seq(Command)
          /\ \A c : Contains(commands, c) => c = Push(i)
      <3>1. <<>> \in Seq(Command)
        BY EmptySeq
      <3>2. /\ <<Push(i)>> \in Seq(Command)
            /\ \A c : Contains(<<Push(i)>>, c) <=> c = Push(i)
        BY <2>2, OneContains
      <3>3. QED
        BY <3>1, <3>2, EmptyContains
    <2>4. ToSet(list) \in SUBSET Id
      BY <1>list DEF ToSet
    <2>5. Fine(Remaining(ToSet(list), todo, commands), pc, suspected)
      <3> HIDE DEF todo, commands
      <3>1. \A c \in Command : Contains(commands, c) => Harmless(c, pc, suspected)
        BY <2>2, <2>3
      <3>2. QED
        BY <2>1, <2>3, <2>4, <3>1, RemainingFine
    <2>6. /\ UNCHANGED <<list, pc, suspected>>
          /\ heartbeat' = [heartbeat EXCEPT ![i] = Remaining(ToSet(list), todo, commands)]
      BY <1>8 DEF Begin
    <2> HIDE DEF todo, commands
    <2>7. QED
      BY <1>7, <2>5, <2>6
  \* A command that is sent is harmless.
  <1>9. ASSUME NEW i \in Id, Send(i) PROVE MemberStep
    <2> DEFINE h == heartbeat[i]
               c == Head(h.commands)
               rest == Tail(h.commands)
    <2>1. /\ h.commands # <<>> /\ list' = Effect(c)
          /\ heartbeat' = [heartbeat EXCEPT ![i] = Remaining(h.members, h.todo, rest)]
          /\ UNCHANGED <<pc, suspected>>
      BY <1>9 DEF Send
    <2>2. /\ Fine(h, pc, suspected) /\ h.members \in SUBSET Id
          /\ h.todo \in Seq(Id) /\ h.commands \in Seq(Command)
      BY DEF MemberInv, Fine, Heartbeat
    <2>3. /\ c \in Command /\ Contains(h.commands, c)
          /\ rest \in Seq(Command)
          /\ \A d : Contains(rest, d) => Contains(h.commands, d)
      BY <2>1, <2>2, TailContains
    <2>4. Harmless(c, pc, suspected) /\ c.id \in Id /\ c.op \in {"push", "remove"}
      BY <2>2, <2>3 DEF Fine, Command
    <2>5. Fine(Remaining(h.members, h.todo, rest), pc, suspected)
      <3>1. Known(h.todo, pc)
        BY <2>2 DEF Fine
      <3>2. \A d \in Command : Contains(rest, d) => Harmless(d, pc, suspected)
        BY <2>2, <2>3 DEF Fine
      <3> HIDE DEF h, rest
      <3>3. QED
        BY <2>2, <2>3, <3>1, <3>2, RemainingFine
    <2> DEFINE left == Remaining(h.members, h.todo, rest)
    <2>6. \A j \in Id : Fine(heartbeat'[j], pc, suspected)
      <3>1. Fine(left, pc, suspected) /\ heartbeat' = [heartbeat EXCEPT ![i] = left]
        BY <2>1, <2>5
      <3> HIDE DEF left, h, c, rest
      <3>2. QED
        BY <3>1 DEF MemberInv
    <2>7. heartbeat' = [j \in Id |-> heartbeat'[j]]
      <3> HIDE DEF h, rest
      <3>1. QED
        BY <2>1 DEF MemberInv
    <2> HIDE DEF h, c, rest, left
    <2>8. ASSUME c.op = "push" PROVE MemberStep
      <3>1. list' = Append(list, c.id)
        BY <2>1, <2>8 DEF Effect
      <3>2. /\ list' \in Seq(Id)
            /\ \A x : Contains(list', x) <=> Contains(list, x) \/ x = c.id
            /\ list # <<>> => list' # <<>> /\ Head(list') = Head(list)
        BY <1>list, <2>4, <3>1, AppendContains, AppendType
      <3>3. Known(list', pc)
        BY <1>list, <2>4, <3>2 DEF Known, Harmless
      <3>4. MemberInv'
        BY <2>1, <2>6, <2>7, <3>2, <3>3 DEF MemberInv, OneUpAtAnAddress, Up
      <3>5. QED
        BY <3>2, <3>4 DEF MemberStep, Kept, Led
    <2>9. ASSUME c.op = "remove" PROVE MemberStep
      <3>1. list' = Without(list, c.id)
        BY <2>1, <2>9 DEF Effect
      <3>2. /\ list' \in Seq(Id)
            /\ \A x : Contains(list', x) <=> Contains(list, x) /\ x # c.id
            /\ list # <<>> /\ Head(list) # c.id => list' # <<>> /\ Head(list') = Head(list)
        BY <1>list, <3>1, WithoutProperties
      <3>3. Known(list', pc)
        BY <1>list, <3>2 DEF Known
      <3>4. MemberInv'
        BY <2>1, <2>6, <2>7, <3>2, <3>3 DEF MemberInv, OneUpAtAnAddress, Up
      <3>5. c.id \notin Joined \ suspected
        BY <2>4, <2>9 DEF Harmless, Joined
      <3>6. QED
        BY <3>2, <3>4, <3>5 DEF MemberStep, Kept, Led
    <2>10. QED
      BY <2>4, <2>8, <2>9
  \* A ping: what is next to do, and harmless commands.
  <1>10. ASSUME NEW i \in Id, NEW commands \in Seq(Command), Ping(i, commands),
                UNCHANGED <<list, pc>>, suspected \subseteq suspected',
                \A c \in Command : Contains(commands, c) => Harmless(c, pc, suspected')
         PROVE  MemberStep
    <2> DEFINE h == heartbeat[i]
               todo == Tail(h.todo)
    <2>1. /\ h.todo # <<>>
          /\ heartbeat' = [heartbeat EXCEPT ![i] = Remaining(h.members, todo, commands)]
      BY <1>10 DEF Ping
    <2>2. /\ h.members \in SUBSET Id /\ h.todo \in Seq(Id) /\ Known(h.todo, pc)
      BY DEF MemberInv, Fine, Heartbeat
    <2>3. todo \in Seq(Id) /\ Known(todo, pc)
      BY <2>1, <2>2, TailContains DEF Known
    <2> HIDE DEF h, todo
    <2>4. Fine(Remaining(h.members, todo, commands), pc, suspected')
      BY <1>10, <2>2, <2>3, RemainingFine
    <2>5. QED
      BY <1>7, <1>10, <2>1, <2>4
  \* Who is pinged has started.
  <1>11. ASSUME NEW i \in Id, heartbeat[i].todo # <<>>
         PROVE  Head(heartbeat[i].todo) \in Id /\ pc[Head(heartbeat[i].todo)] # "new"
    <2>1. heartbeat[i].todo \in Seq(Id) /\ Known(heartbeat[i].todo, pc)
      BY DEF MemberInv, Fine, Heartbeat
    <2>2. QED
      BY <1>11, <2>1, TailContains DEF Known
  <1>12. ASSUME NEW m \in Id PROVE <<Delete(m)>> \in Seq(Command)
                                   /\ \A c : Contains(<<Delete(m)>>, c) <=> c = Delete(m)
    <2>1. Delete(m) \in Command
      BY DEF Delete, Command
    <2>2. QED
      BY <2>1, OneContains
  <1>13. ASSUME NEW i \in Id, PingAnswered(i) PROVE MemberStep
    <2> DEFINE m == Head(heartbeat[i].todo)
    <2>1. m \in Id /\ pc[m] # "new"
      BY <1>11, <1>13 DEF PingAnswered
    <2>2. PICK v \in Id : /\ Up(v) /\ Address[v] = Address[m]
                          /\ Ping(i, IF v = m THEN <<>> ELSE Replace(i, m, v))
      BY <1>13 DEF PingAnswered
    <2>3. UNCHANGED <<list, pc, suspected>>
      BY <1>13 DEF PingAnswered
    <2>4. <<>> \in Seq(Command)
      BY EmptySeq
    <2> HIDE DEF m
    <2>5. CASE v = m
      BY <1>10, <2>2, <2>3, <2>4, <2>5, EmptyContains
    \* The instance that was pinged is not up, for another is at its address.
    <2>6. CASE v # m
      <3>1. pc[m] = "dead"
        BY <2>1, <2>2, <2>6 DEF MemberInv, OneUpAtAnAddress, Up
      <3>2. Push(v) \in Command /\ Harmless(Push(v), pc, suspected)
        BY <2>2 DEF Push, Command, Harmless, Up
      <3>3. Harmless(Delete(m), pc, suspected)
        BY <3>1 DEF Delete, Harmless
      <3> DEFINE first == IF v \in heartbeat[i].members THEN <<>> ELSE <<Push(v)>>
      <3>4. first \in Seq(Command) /\ \A c : Contains(first, c) => c = Push(v)
        BY <2>4, <3>2, EmptyContains, OneContains
      <3>5. /\ <<Delete(m)>> \in Seq(Command)
            /\ \A c : Contains(<<Delete(m)>>, c) <=> c = Delete(m)
        BY <1>12, <2>1
      <3>6. Replace(i, m, v) = first \o <<Delete(m)>>
        BY DEF Replace
      <3> HIDE DEF first
      <3>7. /\ Replace(i, m, v) \in Seq(Command)
            /\ \A c : Contains(Replace(i, m, v), c) => Harmless(c, pc, suspected)
        <4> DEFINE second == <<Delete(m)>>
        <4>1. second \in Seq(Command) /\ \A c : Contains(second, c) => c = Delete(m)
          BY <3>5
        <4> HIDE DEF second
        <4>2. /\ first \o second \in Seq(Command)
              /\ \A c : Contains(first \o second, c) <=> Contains(first, c) \/ Contains(second, c)
          BY <3>4, <4>1, ConcatContains
        <4>3. \A c : Contains(first \o second, c) => c = Push(v) \/ c = Delete(m)
          BY <3>4, <4>1, <4>2
        <4>4. Replace(i, m, v) = first \o second
          BY <3>6 DEF second
        <4>5. QED
          BY <3>2, <3>3, <4>2, <4>3, <4>4
      <3>8. QED
        BY <1>10, <2>2, <2>3, <2>6, <3>7
    <2>7. QED
      BY <2>5, <2>6
  <1>14. ASSUME NEW i \in Id, PingFails(i) PROVE MemberStep
    <2> DEFINE m == Head(heartbeat[i].todo)
    <2>1. m \in Id /\ pc[m] # "new"
      BY <1>11, <1>14 DEF PingFails
    <2>2. /\ Ping(i, <<Delete(m)>>) /\ UNCHANGED <<list, pc>>
          /\ \/ suspected' = suspected /\ \A v \in Id : Up(v) => Address[v] # Address[m]
             \/ suspected' = suspected \cup {m}
      BY <1>14 DEF PingFails
    <2> HIDE DEF m
    <2>3. pc[m] = "dead" \/ m \in suspected'
      BY <2>1, <2>2 DEF Up
    <2>4. Harmless(Delete(m), pc, suspected')
      BY <2>1, <2>3 DEF Delete, Harmless
    <2>5. /\ <<Delete(m)>> \in Seq(Command)
          /\ \A c : Contains(<<Delete(m)>>, c) => Harmless(c, pc, suspected')
      BY <1>12, <2>1, <2>4
    <2>6. suspected \subseteq suspected'
      BY <2>2
    <2>7. QED
      BY <1>10, <2>2, <2>5, <2>6
  <1>15. QED
    BY <1>1, <1>3, <1>4, <1>5, <1>6, <1>8, <1>9, <1>13, <1>14
       DEF Next, Join, HeartbeatStep

\* Where the members stand still, they keep the invariant too.
LEMMA MembersStepOfAll ==
  ASSUME MemberInv, [FailoverNext]_<<part, vars, serviceVars, dataVars>>
  PROVE  MemberInv' /\ (UNCHANGED vars \/ (Kept /\ Led))
  <1>1. CASE Next
    BY <1>1, MembersStep DEF MemberStep
  <1>2. CASE UNCHANGED vars
    <2>1. MemberInv'
      BY <1>2 DEF vars, MemberInv, OneUpAtAnAddress, Up
    <2>2. QED
      BY <1>2, <2>1
  <1>3. QED
    BY <1>1, <1>2 DEF FailoverNext

\* A member whose instance lives, and that no ping has missed, is not removed
\* from the list by anybody else, whatever the age of the snapshots and of the
\* commands of the heartbeats.
THEOREM MembersTheorem == FailoverSpec => MembersAreKept
  <1>1. FailoverInit => MemberInv
    BY InitMemberInv DEF FailoverInit
  <1>2. MemberInv /\ [FailoverNext]_<<part, vars, serviceVars, dataVars>>
          => MemberInv' /\ [Kept]_vars
    BY MembersStepOfAll
  <1>3. Kept <=> \A i \in Joined \ suspected : Contains(list, i) /\ pc'[i] = "in"
                                                 => Contains(list', i)
    BY DEF Kept
  <1>4. QED
    BY <1>1, <1>2, <1>3, PTL DEF FailoverSpec, MembersAreKept

\* The leader, while it lives and no ping misses it, stays at the head of the
\* list, unless another instance joins.
THEOREM LeaderTheorem == FailoverSpec => LeaderIsKept
  <1>1. FailoverInit => MemberInv
    BY InitMemberInv DEF FailoverInit
  <1>2. MemberInv /\ [FailoverNext]_<<part, vars, serviceVars, dataVars>>
          => MemberInv' /\ [Led]_vars
    BY MembersStepOfAll
  <1>3. QED
    BY <1>1, <1>2, PTL DEF FailoverSpec, LeaderIsKept, Led

-----------------------------------------------------------------------------
(* The data sources of a group.  The count of a source, and what a caller  *)
(* has read of it, never exceed its failures in a row, unless the source   *)
(* is one of those whose count was removed in between.                     *)

Justified(n, s) == n <= dInRow[s] \/ deadFailureThreshold <= dInRow[s] \/ s \in dLate

DataInv ==
    /\ dPc \in [Caller -> {"idle", "trying", "failed", "marking"}]
    /\ dSource \in [Caller -> Data!Source \cup {Nothing}]
    /\ dCount \in [Data!Source -> Nat]
    /\ dInRow \in [Data!Source -> Nat]
    /\ dTimes \in [Caller -> Nat]
    /\ \A c \in Caller : dPc[c] # "idle" => dSource[c] \in Data!Source
    /\ \A s \in Data!Source : Justified(dCount[s], s)
    /\ \A c \in Caller : dPc[c] = "failed" => Justified(dTimes[c], dSource[c])

MarkedForCause == \A c \in Caller : dPc[c] = "failed" /\ dPc'[c] = "marking" =>
                     dInRow[dSource[c]] >= deadFailureThreshold \/ dSource[c] \in dLate

DataStep == DataInv' /\ MarkedForCause

LEMMA InitDataInv == Data!Init => DataInv
  BY DEF Data!Init, DataInv, Justified

\* Steps that leave the counts alone, and where a call has read nothing.
LEMMA CountsUntouched ==
  ASSUME DataInv, UNCHANGED <<dCount, dInRow, dLate>>,
         dPc' \in [Caller -> {"idle", "trying", "failed", "marking"}],
         dSource' \in [Caller -> Data!Source \cup {Nothing}],
         dTimes' \in [Caller -> Nat],
         \A c \in Caller : dPc'[c] # "idle" => dSource'[c] \in Data!Source,
         \A c \in Caller : dPc'[c] = "failed"
            => dPc[c] = "failed" /\ dTimes'[c] = dTimes[c] /\ dSource'[c] = dSource[c],
         \A c \in Caller : dPc'[c] = "marking" => dPc[c] = "marking"
  PROVE  DataStep
  BY DEF DataStep, DataInv, Justified, MarkedForCause

LEMMA DataNext == ASSUME DataInv, Data!Next PROVE DataStep
  <1> USE FailoverAssumption
  <1>1. ASSUME UNCHANGED <<dPc, dSource, dTimes, dCount, dInRow, dLate>> PROVE DataStep
    BY <1>1 DEF DataStep, DataInv, Justified, MarkedForCause
  <1>2. ASSUME NEW s \in Data!Source, Data!Change(s) PROVE DataStep
    BY <1>1, <1>2 DEF Data!Change, Data!sharedVars, Data!callVars
  <1>3. ASSUME NEW c \in Caller, Data!GetConnection(c) PROVE DataStep
    <2>1. PICK s \in Data!Source : dSource' = [dSource EXCEPT ![c] = s]
      BY <1>3 DEF Data!GetConnection, Data!Choices, Data!Usable, Data!Source
    <2>2. /\ dPc' = [dPc EXCEPT ![c] = "trying"] /\ dPc[c] = "idle"
          /\ UNCHANGED <<dCount, dInRow, dLate, dTimes>>
      BY <1>3 DEF Data!GetConnection, Data!sharedVars
    <2>3. QED
      BY <2>1, <2>2, CountsUntouched DEF DataInv
  \* A count is removed, and with it the row of failures.  Callers that have
  \* read it are too late.
  <1>4. ASSUME NEW c \in Caller, dPc[c] # "idle", Data!RemoveCount(c), dTimes' \in [Caller -> Nat],
               NEW l \in {"idle", "marking"}, dPc' = [dPc EXCEPT ![c] = l],
               l = "idle" => dSource' = [dSource EXCEPT ![c] = Nothing],
               l = "marking" => dSource' = dSource,
               \A d \in Caller \ {c} : dTimes'[d] = dTimes[d]
        PROVE  DataInv'
    <2> DEFINE s == dSource[c]
    <2>1. /\ s \in Data!Source
          /\ dCount' = [dCount EXCEPT ![s] = 0]
          /\ dInRow' = [dInRow EXCEPT ![s] = 0]
          /\ dLate \subseteq dLate'
          /\ \A d \in Caller \ {c} : dPc[d] = "failed" /\ dSource[d] = s => s \in dLate'
      BY <1>4 DEF Data!RemoveCount, DataInv
    <2>2. \A d \in Caller \ {c} : dPc'[d] = dPc[d] /\ dSource'[d] = dSource[d]
      BY <1>4 DEF DataInv
    <2>3. \A r \in Data!Source : Justified(dCount[r], r)'
      BY <2>1 DEF DataInv, Justified
    <2>4. ASSUME NEW d \in Caller, dPc'[d] = "failed"
          PROVE  Justified(dTimes[d], dSource[d])'
      <3>1. d # c /\ dPc[d] = "failed" /\ dTimes'[d] = dTimes[d] /\ dSource'[d] = dSource[d]
        BY <1>4, <2>2, <2>4 DEF DataInv
      <3>2. Justified(dTimes[d], dSource[d]) /\ dSource[d] \in Data!Source
        BY <3>1 DEF DataInv
      <3>3. CASE dSource[d] = s
        BY <2>1, <3>1, <3>3 DEF Justified
      <3>4. CASE dSource[d] # s
        BY <2>1, <3>1, <3>2, <3>4 DEF Justified, DataInv
      <3>5. QED
        BY <3>3, <3>4
    <2>5. /\ dPc' \in [Caller -> {"idle", "trying", "failed", "marking"}]
          /\ dSource' \in [Caller -> Data!Source \cup {Nothing}]
          /\ \A d \in Caller : dPc'[d] # "idle" => dSource'[d] \in Data!Source
      BY <1>4 DEF DataInv
    <2>6. dCount' \in [Data!Source -> Nat] /\ dInRow' \in [Data!Source -> Nat]
      BY <2>1 DEF DataInv
    <2>7. QED
      BY <1>4, <2>3, <2>4, <2>5, <2>6 DEF DataInv
  <1>5. ASSUME NEW c \in Caller, Data!Connect(c) PROVE DataStep
    <2>1. /\ dPc[c] = "trying" /\ Data!RemoveCount(c)
          /\ dPc' = [dPc EXCEPT ![c] = "idle"]
          /\ dSource' = [dSource EXCEPT ![c] = Nothing]
          /\ dTimes' = [dTimes EXCEPT ![c] = 0]
      BY <1>5 DEF Data!Connect, Data!Return
    <2>2. DataInv'
      BY <1>4, <2>1 DEF DataInv
    <2>3. MarkedForCause
      BY <2>1 DEF MarkedForCause, DataInv
    <2>4. QED
      BY <2>2, <2>3 DEF DataStep
  <1>6. ASSUME NEW c \in Caller, Data!Throw(c) PROVE DataStep
    <2>1. /\ dPc' = [dPc EXCEPT ![c] = "idle"]
          /\ dSource' = [dSource EXCEPT ![c] = Nothing]
          /\ dTimes' = [dTimes EXCEPT ![c] = 0]
          /\ UNCHANGED <<dCount, dInRow, dLate>>
      BY <1>6 DEF Data!Throw, Data!Return, Data!sharedVars
    <2>2. QED
      BY <2>1, CountsUntouched DEF DataInv
  \* A failure makes the row longer, before its count is written.
  <1>7. ASSUME NEW c \in Caller, Data!Fail(c) PROVE DataStep
    <2> DEFINE s == dSource[c]
    <2>1. /\ s \in Data!Source /\ dPc[c] = "trying"
          /\ dPc' = [dPc EXCEPT ![c] = "failed"]
          /\ dTimes' = [dTimes EXCEPT ![c] = dCount[s] + 1]
          /\ dInRow' = [dInRow EXCEPT ![s] = IF dInRow[s] < deadFailureThreshold
                                             THEN dInRow[s] + 1 ELSE dInRow[s]]
          /\ UNCHANGED <<dCount, dLate, dSource>>
      BY <1>7 DEF Data!Fail, DataInv
    <2>2. deadFailureThreshold \in Nat
      OBVIOUS
    <2> HIDE DEF s
    <2>3. \A r \in Data!Source : dInRow'[r] \in Nat /\ dInRow'[r] >= dInRow[r]
      BY <2>1, <2>2 DEF DataInv
    <2>4. \A r \in Data!Source : Justified(dCount[r], r)'
      BY <2>1, <2>2, <2>3 DEF DataInv, Justified
    <2>5. ASSUME NEW d \in Caller, dPc'[d] = "failed"
          PROVE  Justified(dTimes[d], dSource[d])'
      <3>1. CASE d = c
        <4>1. Justified(dCount[s], s)
          BY <2>1 DEF DataInv
        <4>2. dTimes'[c] = dCount[s] + 1 /\ dSource'[c] = s
          BY <2>1 DEF DataInv, s
        <4>3. dInRow'[s] = IF dInRow[s] < deadFailureThreshold
                           THEN dInRow[s] + 1 ELSE dInRow[s]
          BY <2>1 DEF DataInv
        <4>4. dCount[s] \in Nat /\ dInRow[s] \in Nat
          BY <2>1 DEF DataInv
        <4>5. QED
          BY <2>1, <2>2, <3>1, <4>1, <4>2, <4>3, <4>4 DEF Justified
      <3>2. CASE d # c
        <4>1. dPc[d] = "failed" /\ dTimes'[d] = dTimes[d] /\ dSource'[d] = dSource[d]
          BY <2>1, <2>5, <3>2 DEF DataInv
        <4>2. Justified(dTimes[d], dSource[d]) /\ dSource[d] \in Data!Source /\ dTimes[d] \in Nat
          BY <4>1 DEF DataInv
        <4>3. dInRow[dSource[d]] \in Nat
          BY <4>2 DEF DataInv
        <4>4. QED
          BY <2>1, <2>2, <2>3, <4>1, <4>2, <4>3 DEF Justified
      <3>3. QED
        BY <3>1, <3>2
    <2>6. /\ dPc' \in [Caller -> {"idle", "trying", "failed", "marking"}]
          /\ dTimes' \in [Caller -> Nat]
          /\ \A d \in Caller : dPc'[d] # "idle" => dPc[d] # "idle"
          /\ dInRow' \in [Data!Source -> Nat]
      BY <2>1, <2>3 DEF DataInv
    <2>7. DataInv'
      BY <2>1, <2>4, <2>5, <2>6 DEF DataInv
    <2>8. MarkedForCause
      BY <2>1 DEF MarkedForCause, DataInv
    <2>9. QED
      BY <2>7, <2>8 DEF DataStep
  <1>8. ASSUME NEW c \in Caller, Data!Count(c) PROVE DataStep
    <2>1. /\ dPc[c] = "failed" /\ dSource[c] \in Data!Source
          /\ dCount' = [dCount EXCEPT ![dSource[c]] = dTimes[c]]
          /\ dPc' = [dPc EXCEPT ![c] = "trying"]
          /\ dTimes' = [dTimes EXCEPT ![c] = 0]
          /\ UNCHANGED <<dInRow, dLate, dSource>>
      BY <1>8 DEF Data!Count, Data!Again, DataInv
    <2>2. QED
      BY <2>1 DEF DataStep, DataInv, Justified, MarkedForCause
  \* The count has reached the threshold, and so has the row of failures.
  <1>9. ASSUME NEW c \in Caller, Data!Forget(c) PROVE DataStep
    <2>1. /\ dPc[c] = "failed" /\ dTimes[c] = deadFailureThreshold
          /\ Data!RemoveCount(c)
          /\ dPc' = [dPc EXCEPT ![c] = "marking"]
          /\ UNCHANGED <<dSource, dTimes>>
      BY <1>9 DEF Data!Forget
    <2>2. DataInv'
      BY <1>4, <2>1 DEF DataInv
    <2>3. MarkedForCause
      BY <2>1 DEF MarkedForCause, DataInv, Justified
    <2>4. QED
      BY <2>2, <2>3 DEF DataStep
  <1>10. ASSUME NEW c \in Caller, Data!Mark(c) \/ Data!LoseMark(c) PROVE DataStep
    <2>1. /\ dPc[c] = "marking"
          /\ dPc' = [dPc EXCEPT ![c] = "trying"]
          /\ dTimes' = [dTimes EXCEPT ![c] = 0]
          /\ UNCHANGED <<dCount, dInRow, dLate, dSource>>
      BY <1>10 DEF Data!Mark, Data!LoseMark, Data!Again, Data!sharedVars
    <2>2. QED
      BY <2>1, CountsUntouched DEF DataInv
  <1>11. ASSUME Data!TryRecover PROVE DataStep
    BY <1>1, <1>11 DEF Data!TryRecover, Data!BeginRound, Data!Visit, Data!StaysDead,
       Data!Recover, Data!sharedVars, Data!callVars
  <1>12. QED
    BY <1>2, <1>3, <1>5, <1>6, <1>7, <1>8, <1>9, <1>10, <1>11 DEF Data!Next, Data!Call

-----------------------------------------------------------------------------
(* The hosts of a service.                                                 *)

ServiceInv == /\ vEvents \subseteq Service!Event
              /\ vPc = [c \in Caller |-> vPc[c]]

EvictedForCause ==
    \A h \in vCandidates \ vCandidates' :
        \/ \E c \in Caller : vPc[c] = "failed" /\ vPc'[c] # "failed" /\ h \in {vChosen[c], vTarget[c]}
        \/ <<"shutdown", h>> \in vEvents \ vEvents'
        \/ \E c \in Caller : vPc[c] = "fetched" /\ vPc'[c] # "fetched" /\ h \notin vList[c]

ServiceStep == ServiceInv' /\ EvictedForCause

LEMMA InitServiceInv == Service!Init => ServiceInv
  BY DEF Service!Init, ServiceInv

LEMMA ServiceNext == ASSUME ServiceInv, Service!Next PROVE ServiceStep
  \* Steps that take no candidate away.
  <1>1. ASSUME vCandidates \subseteq vCandidates', ServiceInv' PROVE ServiceStep
    BY <1>1 DEF ServiceStep, EvictedForCause
  <1>2. ASSUME NEW h \in Host, NEW from, NEW to, NEW redis, NEW published \in SUBSET {"export", "shutdown"},
               Service!HostStep(h, from, to, redis, published)
        PROVE  ServiceStep
    BY <1>1, <1>2 DEF Service!HostStep, Service!Event, Service!callVars, ServiceInv
  <1>3. ASSUME NEW h \in Host,
               \/ Service!CleanUp(h) \/ Service!Register(h) \/ Service!OnReady(h)
               \/ Service!ContextClosed(h) \/ Service!Unregister(h) \/ Service!Crash(h)
               \/ Service!Detach(h) \/ Service!DetachEvent(h)
        PROVE  ServiceStep
    BY <1>2, <1>3 DEF Service!CleanUp, Service!Register, Service!OnReady,
       Service!ContextClosed, Service!Unregister, Service!Crash, Service!Detach,
       Service!DetachEvent
  <1>4. ASSUME NEW e \in vEvents, Service!Receive(e) PROVE ServiceStep
    <2>1. /\ vEvents' = vEvents \ {e} /\ vPc' = vPc
          /\ vCandidates' = IF e[1] = "shutdown" THEN vCandidates \ {e[2]}
                                                 ELSE vCandidates \cup {e[2]}
      BY <1>4 DEF Service!Receive, Service!callVars
    <2>2. ServiceInv'
      BY <2>1 DEF ServiceInv
    <2>3. CASE e[1] = "shutdown"
      <3>1. e = <<"shutdown", e[2]>>
        BY <2>3 DEF ServiceInv, Service!Event
      <3>2. <<"shutdown", e[2]>> \in vEvents \ vEvents'
        BY <2>1, <3>1
      <3>3. vCandidates \ vCandidates' \subseteq {e[2]}
        BY <2>1, <2>3
      <3>4. QED
        BY <2>2, <3>2, <3>3 DEF ServiceStep, EvictedForCause
    <2>4. CASE e[1] # "shutdown"
      BY <1>1, <2>1, <2>2, <2>4
    <2>5. QED
      BY <2>3, <2>4
  <1>5. ASSUME NEW e \in vEvents, Service!Lose(e) PROVE ServiceStep
    BY <1>1, <1>5 DEF Service!Lose, Service!callVars, ServiceInv
  \* The step of a call keeps the invariant.
  <1>6. ASSUME NEW c \in Caller, NEW from, NEW to, Service!CallStep(c, from, to)
        PROVE  /\ ServiceInv' /\ vPc[c] = from /\ vPc'[c] = to
    BY <1>6 DEF Service!CallStep, ServiceInv
  <1>7. ASSUME NEW c \in Caller, NEW from, NEW to, Service!CallStep(c, from, to), vCandidates' = vCandidates
        PROVE  ServiceStep
    BY <1>1, <1>6, <1>7
  <1>8. ASSUME NEW c \in Caller,
               \/ Service!Begin(c) \/ Service!Discover(c) \/ Service!Fetch(c)
               \/ Service!NothingFound(c) \/ Service!Pick(c) \/ Service!Write(c)
               \/ Service!Read(c) \/ Service!Succeed(c) \/ Service!Fail(c)
        PROVE  ServiceStep
    BY <1>7, <1>8 DEF Service!Begin, Service!Discover, Service!Fetch,
       Service!NothingFound, Service!Throw, Service!Pick, Service!Write, Service!Read,
       Service!Succeed, Service!Fail, Service!Shared
  \* The look-up in Redis replaces the candidates by what it found.
  <1>9. ASSUME NEW c \in Caller, Service!Put(c) PROVE ServiceStep
    <2>1. Service!CallStep(c, "fetched", "nearest") /\ vCandidates' = vList[c]
      BY <1>9 DEF Service!Put
    <2>2. ServiceInv' /\ vPc[c] = "fetched" /\ vPc'[c] = "nearest"
      BY <1>6, <2>1
    <2>3. QED
      BY <2>1, <2>2 DEF ServiceStep, EvictedForCause
  \* What an attempt that failed evicts is its own target.
  <1>10. ASSUME NEW c \in Caller, Service!Evict(c) PROVE ServiceStep
    <2>1. /\ Service!CallStep(c, "failed", "discover")
          /\ vCandidates' = vCandidates \ {vTarget[c]}
      BY <1>10 DEF Service!Evict, Service!EvictAs
    <2>2. ServiceInv' /\ vPc[c] = "failed" /\ vPc'[c] = "discover"
      BY <1>6, <2>1
    <2>3. QED
      BY <2>1, <2>2 DEF ServiceStep, EvictedForCause
  <1>11. QED
    BY <1>3, <1>4, <1>5, <1>8, <1>9, <1>10 DEF Service!Next, Service!Call

\* A host is given up because a request of the same call failed, because it
\* announced its shutdown, or because Redis no longer has it; a data source is
\* marked dead after as many failures in a row as the threshold asks for, unless
\* its count was removed between a caller's reading and writing of it.
THEOREM CauseTheorem == FailoverSpec => OutForCause
  <1> DEFINE Inv == ServiceInv /\ DataInv
  <1>1. FailoverInit => Inv
    BY InitServiceInv, InitDataInv DEF FailoverInit
  <1>2. ASSUME Inv, [FailoverNext]_<<part, vars, serviceVars, dataVars>>
        PROVE  /\ Inv' /\ [EvictedForCause]_(Service!vars) /\ [MarkedForCause]_(Data!vars)
    <2>1. ASSUME UNCHANGED serviceVars
          PROVE  ServiceInv' /\ UNCHANGED Service!vars
      BY <1>2, <2>1 DEF serviceVars, ServiceInv, Service!vars, Service!hostVars, Service!callVars
    <2>2. ASSUME UNCHANGED dataVars
          PROVE  DataInv' /\ UNCHANGED Data!vars
      BY <1>2, <2>2 DEF dataVars, DataInv, Justified, Data!vars, Data!sharedVars, Data!callVars
    <2>3. CASE Service!Next /\ UNCHANGED dataVars
      BY <1>2, <2>2, <2>3, ServiceNext DEF ServiceStep
    <2>4. CASE Data!Next /\ UNCHANGED serviceVars
      BY <1>2, <2>1, <2>4, DataNext DEF DataStep
    <2>5. CASE UNCHANGED serviceVars /\ UNCHANGED dataVars
      BY <2>1, <2>2, <2>5
    <2>6. QED
      BY <1>2, <2>3, <2>4, <2>5 DEF FailoverNext
  <1>3. Inv /\ [FailoverNext]_<<part, vars, serviceVars, dataVars>>
          => Inv' /\ [EvictedForCause]_(Service!vars) /\ [MarkedForCause]_(Data!vars)
    BY <1>2
  <1>4. QED
    BY <1>1, <1>3, PTL DEF FailoverSpec, OutForCause, Service!OutForCause, EvictedForCause,
       Data!DeadForCause, MarkedForCause
=============================================================================
