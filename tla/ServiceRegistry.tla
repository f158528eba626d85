-------------------------- MODULE ServiceRegistry --------------------------
(***************************************************************************)
(* RedisServiceRegistry and HttpInvokerClient: the hosts that export one   *)
(* service are a Redis list; a client keeps a list of candidates of its    *)
(* own, picks one for each attempt, evicts it when the attempt fails, and  *)
(* looks in Redis again only when its list is empty.  Events announce the  *)
(* hosts that start and shut down; they may come late or be lost.          *)
(*                                                                         *)
(* The client has several calling threads, which share the candidates and  *)
(* the field discoveredHost.  Load balancing, by which a host may be       *)
(* listed twice, and the fall back to the default serializer are left out; *)
(* which of the candidates is nearest, or next in turn, is any of them.    *)
(***************************************************************************)
EXTENDS Naturals, FiniteSets

CONSTANTS Host,         \* hosts that export the service
          Caller,       \* threads of the client
          maxAttempts,
          NoHost, Current, \* no host; the list that the map holds now
          MaxFaults     \* bound of the model: hosts that crash, shut down or are
                        \* detached, requests that fail at a good host, and
                        \* values of discoveredHost read too late

VARIABLES registered,     \* the Redis list, in which a host is once at most
          host,           \* the life of each host
          events,         \* published and not yet received
          faults,
          candidates,     \* importedServiceCandidates of the service
          discoveredHost,
          pc, remainingAttempts, \* of each call
          chosen, target, \* targetServiceUrl and targetDiscoveredHost
          list            \* the list a call has fetched, or still holds

hostVars == <<registered, host>>
callVars == <<pc, remainingAttempts, chosen, target, list>>
vars == <<hostVars, events, faults, candidates, discoveredHost, callVars>>

Event == {"export", "shutdown"} \X Host

TypeOK == /\ registered \subseteq Host /\ candidates \subseteq Host
          /\ host \in [Host -> {"down", "cleaned", "registered", "up", "closing",
                                "detaching", "detached", "attaching"}]
          /\ events \subseteq Event
          /\ faults \in 0 .. MaxFaults
          /\ discoveredHost \in Host \cup {NoHost}
          /\ pc \in [Caller -> {"idle", "thrown", "discover", "lookup", "fetched", "nearest",
                                "picked", "written", "asking", "failed"}]
          /\ remainingAttempts \in [Caller -> 0 .. maxAttempts]
          /\ chosen \in [Caller -> Host \cup {NoHost}]
          /\ target \in [Caller -> Host \cup {NoHost}]
          /\ \A c \in Caller : list[c] = Current \/ list[c] \subseteq Host

\* The hosts have registered, and some have crashed or were detached since; the
\* client looked for the service before that and did not hear of them, or after.
Init == /\ host \in [Host -> {"up", "down", "detached"}]
        /\ registered = {h \in Host : host[h] # "detached"}
        /\ candidates \in {{}, Host}
        /\ events = {}
        /\ faults = 0
        /\ discoveredHost = NoHost
        /\ pc = [c \in Caller |-> "idle"]
        /\ remainingAttempts = [c \in Caller |-> 0]
        /\ chosen = [c \in Caller |-> NoHost]
        /\ target = [c \in Caller |-> NoHost]
        /\ list = [c \in Caller |-> Current]

-----------------------------------------------------------------------------
(* The hosts *)

Fault == faults < MaxFaults /\ faults' = faults + 1

\* What one host does, and whether it publishes an event.
HostStep(h, from, to, redis, published) ==
    /\ host[h] \in from
    /\ host' = [host EXCEPT ![h] = to]
    /\ registered' = redis
    /\ events' = events \cup (published \X {h})
    /\ UNCHANGED <<candidates, discoveredHost, callVars>>

\* doRegister, when the host starts or is attached again: LREM, then RPUSH.
CleanUp(h) == /\ Fault
              /\ \/ HostStep(h, {"down"}, "cleaned", registered \ {h}, {})
                 \/ HostStep(h, {"detached"}, "attaching", registered \ {h}, {})

\* attach publishes nothing.
Register(h) == /\ \/ HostStep(h, {"cleaned"}, "registered", registered \cup {h}, {})
                  \/ HostStep(h, {"attaching"}, "up", registered \cup {h}, {})
               /\ UNCHANGED faults

OnReady(h) == /\ HostStep(h, {"registered"}, "up", registered, {"export"})
              /\ UNCHANGED faults

\* The context is closed: the event comes first, then the registry stops.
ContextClosed(h) == Fault /\ HostStep(h, {"up"}, "closing", registered, {"shutdown"})

Unregister(h) == /\ HostStep(h, {"closing"}, "down", registered \ {h}, {})
                 /\ UNCHANGED faults

\* The process ends without a word, and its host stays in the list.
Crash(h) == Fault /\ HostStep(h, {"up"}, "down", registered, {})

\* detach, after which the host still serves whoever calls it.
Detach(h) == Fault /\ HostStep(h, {"up"}, "detaching", registered \ {h}, {})

DetachEvent(h) == /\ HostStep(h, {"detaching"}, "detached", registered, {"shutdown"})
                  /\ UNCHANGED faults

\* A host that starts or stops may answer already, or still.
Serves(h) == host[h] \notin {"down", "cleaned"}
MayFail(h) == host[h] \in {"down", "cleaned", "registered", "closing"}

-----------------------------------------------------------------------------
(* The client *)

\* onApplicationEvent: evict, or add to the candidates.
Receive(e) ==
    /\ e \in events
    /\ events' = events \ {e}
    /\ candidates' = IF e[1] = "shutdown" THEN candidates \ {e[2]} ELSE candidates \cup {e[2]}
    /\ UNCHANGED <<hostVars, faults, discoveredHost, callVars>>

Lose(e) == /\ e \in events
           /\ events' = events \ {e}
           /\ UNCHANGED <<hostVars, faults, candidates, discoveredHost, callVars>>

CallStep(c, from, to) == /\ pc[c] = from
                         /\ pc' = [pc EXCEPT ![c] = to]
                         /\ UNCHANGED <<hostVars, events>>

Shared == <<faults, candidates, discoveredHost>>

Begin(c) == /\ \/ CallStep(c, "idle", "discover")
               \/ CallStep(c, "thrown", "discover")
            /\ remainingAttempts' = [remainingAttempts EXCEPT ![c] = maxAttempts]
            /\ UNCHANGED <<Shared, chosen, target, list>>

\* discover: the candidates are taken if there are any.
Discover(c) == /\ IF candidates # {} THEN CallStep(c, "discover", "nearest")
                                     ELSE CallStep(c, "discover", "lookup")
               /\ UNCHANGED <<Shared, remainingAttempts, chosen, target, list>>

Fetch(c) == /\ CallStep(c, "lookup", "fetched")
            /\ list' = [list EXCEPT ![c] = registered]
            /\ UNCHANGED <<Shared, remainingAttempts, chosen, target>>

\* An exception ends the call.
Throw(c, from) == /\ CallStep(c, from, "thrown")
                  /\ remainingAttempts' = [remainingAttempts EXCEPT ![c] = 0]
                  /\ chosen' = [chosen EXCEPT ![c] = NoHost]
                  /\ target' = [target EXCEPT ![c] = NoHost]
                  /\ list' = [list EXCEPT ![c] = Current]

\* A list object that is replaced stays in the hands of those who took it.
Put(c) == /\ list[c] # {}
          /\ CallStep(c, "fetched", "nearest")
          /\ candidates' = list[c]
          /\ list' = [d \in Caller |-> IF d = c THEN Current
                                       ELSE IF pc[d] = "nearest" /\ list[d] = Current
                                            THEN candidates ELSE list[d]]
          /\ UNCHANGED <<faults, discoveredHost, remainingAttempts, chosen, target>>

\* Redis has no host: whatever is in the candidates by now, or no service.
NothingFound(c) == /\ list[c] = {}
                   /\ \/ /\ candidates # {}
                         /\ CallStep(c, "fetched", "nearest")
                         /\ list' = [list EXCEPT ![c] = Current]
                         /\ UNCHANGED <<remainingAttempts, chosen, target>>
                      \/ candidates = {} /\ Throw(c, "fetched")
                   /\ UNCHANGED Shared

\* findNearest and the counter.  They fail if the list was emptied meanwhile.
Pick(c) == LET taken == IF list[c] = Current THEN candidates ELSE list[c] IN
           /\ \/ /\ CallStep(c, "nearest", "picked")
                 /\ \E h \in taken : chosen' = [chosen EXCEPT ![c] = h]
                 /\ list' = [list EXCEPT ![c] = Current]
                 /\ UNCHANGED <<remainingAttempts, target>>
              \/ taken = {} /\ Throw(c, "nearest")
           /\ UNCHANGED Shared

\* Callers whose discoveredHost is about to be overwritten before they read it.
Overwritten(c) == {d \in Caller \ {c} : pc[d] = "written" /\ chosen[d] # chosen[c]}

Write(c) == /\ CallStep(c, "picked", "written")
            /\ discoveredHost' = chosen[c]
            /\ IF Overwritten(c) = {} THEN UNCHANGED faults ELSE Fault
            /\ UNCHANGED <<candidates, remainingAttempts, chosen, target, list>>

Read(c) == /\ CallStep(c, "written", "asking")
           /\ target' = [target EXCEPT ![c] = discoveredHost]
           /\ UNCHANGED <<Shared, remainingAttempts, chosen, list>>

Succeed(c) == /\ pc[c] = "asking" /\ Serves(chosen[c])
              /\ CallStep(c, "asking", "idle")
              /\ remainingAttempts' = [remainingAttempts EXCEPT ![c] = 0]
              /\ chosen' = [chosen EXCEPT ![c] = NoHost]
              /\ target' = [target EXCEPT ![c] = NoHost]
              /\ UNCHANGED <<Shared, list>>

\* The last attempt fails without an eviction.
Fail(c) == /\ pc[c] = "asking"
           /\ \/ MayFail(chosen[c]) /\ UNCHANGED faults
              \/ ~MayFail(chosen[c]) /\ Fault
           /\ \/ remainingAttempts[c] <= 1 /\ Throw(c, "asking")
              \/ /\ remainingAttempts[c] > 1
                 /\ CallStep(c, "asking", "failed")
                 /\ UNCHANGED <<remainingAttempts, chosen, target, list>>
           /\ UNCHANGED <<candidates, discoveredHost>>

\* The next attempt begins when this one's host is evicted.
EvictAs(c, gone) ==
    /\ CallStep(c, "failed", "discover")
    /\ candidates' = candidates \ {gone}
    /\ remainingAttempts' = [remainingAttempts EXCEPT ![c] = @ - 1]
    /\ chosen' = [chosen EXCEPT ![c] = NoHost]
    /\ target' = [target EXCEPT ![c] = NoHost]
    /\ UNCHANGED <<faults, discoveredHost, list>>

\* Mutant: the field is read again after the request.
EvictDiscovered(c) == EvictAs(c, discoveredHost)

Evict(c) == EvictAs(c, target[c])

Call(c) == \/ Discover(c) \/ Fetch(c) \/ Put(c) \/ NothingFound(c) \/ Pick(c)
           \/ Write(c) \/ Read(c) \/ Succeed(c) \/ Fail(c) \/ Evict(c)

Next == \/ \E h \in Host : \/ CleanUp(h) \/ Register(h) \/ OnReady(h)
                           \/ ContextClosed(h) \/ Unregister(h) \/ Crash(h)
                           \/ Detach(h) \/ DetachEvent(h)
        \/ \E e \in events : Receive(e) \/ Lose(e)
        \/ \E c \in Caller : Begin(c) \/ Call(c)

\* A call that has begun goes on.
Fairness == \A c \in Caller : WF_vars(Call(c))

-----------------------------------------------------------------------------
\* A host leaves the candidates because a request to it has failed, because it
\* announced that it shuts down, or because Redis no longer has it, and never
\* because of another thread's failure; except that a thread which was overtaken
\* between setting discoveredHost and reading it evicts the other one's host.
OutForCause ==
    [][\A h \in candidates \ candidates' :
          \/ \E c \in Caller : pc[c] = "failed" /\ pc'[c] # "failed" /\ h \in {chosen[c], target[c]}
          \/ <<"shutdown", h>> \in events \ events'
          \/ \E c \in Caller : pc[c] = "fetched" /\ pc'[c] # "fetched" /\ h \notin list[c]]_vars

\* When hosts come and go no more and one of them is up and registered, calls
\* cease to fail, though dead hosts stay in Redis and events may be lost.
CallsGetThrough ==
    <>[](\E h \in registered : host[h] = "up")
        => <>[][\A c \in Caller : pc'[c] = "thrown" => pc[c] = "thrown"]_vars
=============================================================================
