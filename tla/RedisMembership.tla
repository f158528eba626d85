-------------------------- MODULE RedisMembership --------------------------
(***************************************************************************)
(* RedisMembership: the members of one group are a Redis list, whose head  *)
(* is the leader.  An instance puts itself at the head when it joins.  The *)
(* heartbeat of every member reads the list, puts itself back at the tail  *)
(* if it is missing, pings the others and removes those that do not answer *)
(* with their own id; an unknown id that answers is put at the tail.       *)
(*                                                                         *)
(* A member is one incarnation of an instance: a restarted instance has a  *)
(* new id at the same address.  Each Redis command is atomic; between a    *)
(* heartbeat's reading of the list and its commands anything may happen.   *)
(* All instances run the same application.                                 *)
(***************************************************************************)
EXTENDS Naturals, FiniteSets, SequencesExt, Lists

CONSTANTS Id,         \* instance ids, one for each incarnation
          Address,    \* the host and port an id ends in
          MaxFalse,   \* bound of the model: pings of a live member that fail
          MaxLeave    \* bound of the model: how often an instance leaves

ASSUME MembershipAssumption == MaxFalse \in Nat /\ MaxLeave \in Nat

VARIABLES list,       \* the Redis list
          pc,         \* the life of each incarnation, and where it is in
                      \* join, leave and destroy
          heartbeat,  \* the local state of its heartbeat: the members in its
                      \* snapshot of the list, those it still has to ping, and
                      \* the commands it is about to send
          suspected,  \* members that a ping failed to reach though they live
          leaves

vars == <<list, pc, heartbeat, suspected, leaves>>

Up(i) == pc[i] \notin {"new", "dead"}

\* groups of the instance contains the group.
InGroups(i) == pc[i] \in {"in", "leaving", "stopping"}

\* What LREM of all occurrences of a value leaves of a list.
Without(s, e) == Only(s, ToSet(s) \ {e})

Joined == {i \in Id : pc[i] = "in"}

Command == [op : {"push", "remove"}, id : Id]

Heartbeat == [members : SUBSET Id, todo : Seq(Id), commands : Seq(Command)]

\* No heartbeat is running.
Idle == [members |-> {}, todo |-> <<>>, commands |-> <<>>]

TypeOK == /\ list \in Seq(Id)
          /\ pc \in [Id -> {"new", "started", "joining", "pushed", "in", "leaving",
                            "out", "stopping", "dead"}]
          /\ heartbeat \in [Id -> Heartbeat]
          /\ suspected \subseteq Id
          /\ leaves \in 0 .. MaxLeave
          /\ \A i \in Id : ~Up(i) => heartbeat[i] = Idle

Init == /\ list = <<>>
        /\ pc = [i \in Id |-> "new"]
        /\ heartbeat = [i \in Id |-> Idle]
        /\ suspected = {}
        /\ leaves = 0

Goto(i, l) == pc' = [pc EXCEPT ![i] = l]

-----------------------------------------------------------------------------
(* The life of an instance *)

Start(i) == /\ pc[i] = "new"
            /\ \A j \in Id : Address[j] = Address[i] => ~Up(j)
            /\ Goto(i, "started")
            /\ UNCHANGED <<list, heartbeat, suspected, leaves>>

\* join: LREM of one occurrence, LPUSH, groups.add.
JoinRemove(i) == /\ pc[i] \in {"started", "out"}
                 /\ list' = RemoveFirst(list, i)
                 /\ Goto(i, "joining")
                 /\ UNCHANGED <<heartbeat, suspected, leaves>>

JoinPush(i) == /\ pc[i] = "joining"
               /\ list' = <<i>> \o list
               /\ Goto(i, "pushed")
               /\ UNCHANGED <<heartbeat, suspected, leaves>>

JoinAdd(i) == /\ pc[i] = "pushed"
              /\ Goto(i, "in")
              /\ UNCHANGED <<list, heartbeat, suspected, leaves>>

\* leave: LREM of all occurrences, groups.remove.
LeaveRemove(i) == /\ pc[i] = "in"
                  /\ leaves < MaxLeave
                  /\ leaves' = leaves + 1
                  /\ list' = Without(list, i)
                  /\ Goto(i, "leaving")
                  /\ UNCHANGED <<heartbeat, suspected>>

LeaveForget(i) == /\ pc[i] = "leaving"
                  /\ Goto(i, "out")
                  /\ UNCHANGED <<list, heartbeat, suspected, leaves>>

\* An orderly shutdown removes the member first; a heartbeat may still run.
Destroy(i) == /\ pc[i] = "in"
              /\ list' = Without(list, i)
              /\ Goto(i, "stopping")
              /\ UNCHANGED <<heartbeat, suspected, leaves>>

\* The process ends, after destroy or without.
Die(i) == /\ Up(i)
          /\ Goto(i, "dead")
          /\ heartbeat' = [heartbeat EXCEPT ![i] = Idle]
          /\ UNCHANGED <<list, suspected, leaves>>

-----------------------------------------------------------------------------
(* The heartbeat *)

\* What is left of a heartbeat whose list and commands are these.
Remaining(seen, todo, commands) ==
    IF todo = <<>> /\ commands = <<>> THEN Idle
    ELSE [members |-> seen, todo |-> todo, commands |-> commands]

Push(i) == [op |-> "push", id |-> i]
Delete(i) == [op |-> "remove", id |-> i]

\* Mutant: a member that finds itself missing stays so.
BeginWithoutSelf(i) ==
    /\ InGroups(i) /\ heartbeat[i] = Idle
    /\ heartbeat' = [heartbeat EXCEPT ![i] = Remaining(ToSet(list), Without(list, i), <<>>)]
    /\ UNCHANGED <<list, pc, suspected, leaves>>

\* The snapshot of the list; oneself is put back if missing.
Begin(i) ==
    /\ InGroups(i) /\ heartbeat[i] = Idle
    /\ heartbeat' = [heartbeat EXCEPT ![i] =
                       Remaining(ToSet(list), Without(list, i),
                            IF Contains(list, i) THEN <<>> ELSE <<Push(i)>>)]
    /\ UNCHANGED <<list, pc, suspected, leaves>>

\* Mutant: LPUSH instead of RPUSH.
PushesAtTheHead(c) == IF c.op = "push" THEN <<c.id>> \o list ELSE Without(list, c.id)

\* RPUSH, or LREM of all occurrences.
Effect(c) == IF c.op = "push" THEN Append(list, c.id) ELSE Without(list, c.id)

Send(i) == LET h == heartbeat[i] IN
           /\ h.commands # <<>>
           /\ list' = Effect(Head(h.commands))
           /\ heartbeat' = [heartbeat EXCEPT ![i] =
                              Remaining(h.members, h.todo, Tail(h.commands))]
           /\ UNCHANGED <<pc, suspected, leaves>>

\* The next ping, which makes the heartbeat send these commands.
Ping(i, commands) ==
    LET h == heartbeat[i] IN
    /\ h.commands = <<>> /\ h.todo # <<>>
    /\ heartbeat' = [heartbeat EXCEPT ![i] = Remaining(h.members, Tail(h.todo), commands)]

\* Mutant: the id that answers is removed instead of the one that is gone.
DropsTheAnswer(i, m, v) == <<Delete(v)>>

\* Instance v answers for the member m that was pinged, which is gone: v is
\* new unless the snapshot has it.
Replace(i, m, v) ==
    (IF v \in heartbeat[i].members THEN <<>> ELSE <<Push(v)>>) \o <<Delete(m)>>

\* Some instance answers at the member's address.
PingAnswered(i) ==
    /\ heartbeat[i].todo # <<>>
    /\ LET m == Head(heartbeat[i].todo) IN
       \E v \in Id : /\ Up(v) /\ Address[v] = Address[m]
                     /\ Ping(i, IF v = m THEN <<>> ELSE Replace(i, m, v))
    /\ UNCHANGED <<list, pc, suspected, leaves>>

\* Nobody answers, or not in time: the member is removed.
PingFails(i) ==
    /\ heartbeat[i].todo # <<>>
    /\ LET m == Head(heartbeat[i].todo) IN
       /\ Ping(i, <<Delete(m)>>)
       /\ \/ /\ \A v \in Id : Up(v) => Address[v] # Address[m]
             /\ UNCHANGED suspected
          \/ /\ Up(m) /\ m \notin suspected
             /\ Cardinality(suspected) < MaxFalse
             /\ suspected' = suspected \cup {m}
    /\ UNCHANGED <<list, pc, leaves>>

HeartbeatStep(i) == Begin(i) \/ Send(i) \/ PingAnswered(i) \/ PingFails(i)

Join(i) == JoinRemove(i) \/ JoinPush(i) \/ JoinAdd(i)

Next == \E i \in Id : \/ Start(i) \/ Die(i) \/ Destroy(i)
                      \/ Join(i)
                      \/ LeaveRemove(i) \/ LeaveForget(i)
                      \/ HeartbeatStep(i)

(***************************************************************************)
(* The heartbeat is a fixed-delay task, a ping has timeouts, and           *)
(* AppMembership joins when its instance has started; a call of leave and  *)
(* a shutdown come to their end.  Nothing makes an instance start, leave,  *)
(* join again or die, and a ping need not fail.                            *)
(***************************************************************************)
Fairness == \A i \in Id : /\ WF_vars(HeartbeatStep(i))
                          /\ WF_vars(pc[i] # "out" /\ Join(i))
                          /\ WF_vars(LeaveForget(i))
                          /\ WF_vars(pc[i] = "stopping" /\ Die(i))

Spec == Init /\ [][Next]_vars /\ Fairness

-----------------------------------------------------------------------------
\* A member whose instance lives, and that no ping has missed, is not removed
\* by anybody else, whatever the age of the snapshot a heartbeat works from.
MembersAreKept ==
    [][\A i \in Joined \ suspected : Contains(list, i) /\ pc'[i] = "in"
                                        => Contains(list', i)]_vars

\* The leader stays leader while it lives and no ping misses it, unless
\* another instance joins: a member that comes back queues at the tail.
LeaderIsKept ==
    [][/\ list # <<>>
       /\ Head(list) \in Joined \ suspected /\ pc'[Head(list)] = "in"
       => \/ list' # <<>> /\ Head(list') = Head(list)
          \/ \E i \in Id : JoinPush(i)]_vars

\* The list has every member, and nobody else but instances that have left
\* and still answer pings: leave does not keep a heartbeat from listing them.
Accurate == Joined # {} => /\ Joined \subseteq ToSet(list)
                           /\ \A i \in ToSet(list) : pc[i] \in {"in", "out"}

\* Once instances stop to come and go, the list is right and stays so: dead
\* members disappear, wrongly removed ones come back.
ListConverges == <>[]Accurate
=============================================================================
