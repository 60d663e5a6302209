------------------------------- MODULE RedisBus -------------------------------
(* core/redis_bus.py: local subscribers behind the subscriptions of one Redis*)
(* connection. subscribe and unsubscribe decide under the lock whether Redis *)
(* must be told, and tell it outside the lock, in a call that may raise.     *)
(* Redis is taken to deliver, in order, to those it counts as subscribed     *)
(* when a message is published.                                              *)
EXTENDS Integers, Sequences

CONSTANTS
    Handlers,         \* callbacks
    TopicOf,          \* callback -> the topic it subscribes to, or "*"
    Published,        \* topics messages are published on
    MaxMessages       \* bound: messages published

ASSUME BusAssumption ==
    /\ MaxMessages \in Nat /\ "*" \notin Published
    /\ TopicOf \in [Handlers -> Published \cup {"*"}]

VARIABLES
    local,            \* topic -> _subs
    remote,           \* the topics, and the pattern "*", Redis has for the connection
    telling,          \* handler -> what its call has still to tell Redis
    inbox,            \* what Redis has for the connection, oldest first
    sent,             \* messages published
    owing,            \* history: deliveries to come, <<message, handler>>
    adrift            \* history: the topics of which the last to tell Redis raised or
                      \* crossed another

busVars == <<local, remote, telling, inbox, sent, owing, adrift>>

BusTopics == Published \cup {"*"}

BusInit ==
    /\ local = [t \in BusTopics |-> {}] /\ remote = {}
    /\ telling = [h \in Handlers |-> "nothing"]
    /\ inbox = <<>> /\ sent = 0 /\ owing = {} /\ adrift = {}

UnderWay(t) == \E h \in Handlers : TopicOf[h] = t /\ telling[h] # "nothing"
InTouch(t) == t \notin adrift /\ ~UnderWay(t)

(* A call that is to tell Redis, alone, sets right what went wrong before it. *)
Begins(h, fns, tells) ==
    /\ local' = [local EXCEPT ![TopicOf[h]] = fns]
    /\ telling' = [telling EXCEPT ![h] = tells]
    /\ adrift' = IF tells = "nothing" THEN adrift
                 ELSE IF UnderWay(TopicOf[h]) THEN adrift \cup {TopicOf[h]}
                 ELSE adrift \ {TopicOf[h]}
    /\ UNCHANGED <<remote, inbox, sent>>

SubscribeTo(h) ==
    LET fns == local[TopicOf[h]] IN
      /\ telling[h] = "nothing" /\ h \notin fns
      /\ Begins(h, fns \cup {h}, IF fns = {} THEN "subscribe" ELSE "nothing")
      /\ UNCHANGED owing

\* Mutant: unsubscribe tells Redis for every handler that leaves, not for the last.
MutUnsubscribeFrom(h) ==
    /\ telling[h] = "nothing" /\ h \in local[TopicOf[h]]
    /\ Begins(h, local[TopicOf[h]] \ {h}, "unsubscribe")
    /\ owing' = {o \in owing : o[2] # h}

UnsubscribeFrom(h) ==
    LET fns == local[TopicOf[h]] IN
      /\ telling[h] = "nothing" /\ h \in fns
      /\ Begins(h, fns \ {h}, IF fns = {h} THEN "unsubscribe" ELSE "nothing")
      /\ owing' = {o \in owing : o[2] # h}

Commanded(h) == IF telling[h] = "subscribe" THEN remote \cup {TopicOf[h]} ELSE remote \ {TopicOf[h]}

(* (P)SUBSCRIBE or (P)UNSUBSCRIBE reaches Redis. *)
Tells(h) ==
    /\ telling[h] # "nothing"
    /\ remote' = Commanded(h) /\ telling' = [telling EXCEPT ![h] = "nothing"]
    /\ UNCHANGED <<local, inbox, sent, owing, adrift>>

(* The command raises, whether Redis had it or not: _subs stays as it is, and *)
(* who subscribes next finds the topic taken and tells Redis nothing.         *)
TellRaises(h) ==
    /\ telling[h] # "nothing"
    /\ remote' \in {remote, Commanded(h)} /\ telling' = [telling EXCEPT ![h] = "nothing"]
    /\ adrift' = adrift \cup {TopicOf[h]}
    /\ UNCHANGED <<local, inbox, sent, owing>>

(* A message comes once for its topic and once for the pattern. *)
PublishTo(t) ==
    /\ sent < MaxMessages /\ sent' = sent + 1
    /\ LET copy(x) == IF x \in remote THEN <<[message |-> sent + 1, for |-> x]>> ELSE <<>> IN
         inbox' = inbox \o copy(t) \o copy("*")
    /\ owing' = owing \cup ({sent + 1} \X {h \in local[t] \cup local["*"] : InTouch(TopicOf[h])})
    /\ UNCHANGED <<local, remote, telling, adrift>>

(* _dispatch: to the subscribers of this moment. *)
Dispatch ==
    /\ inbox # <<>> /\ inbox' = Tail(inbox)
    /\ LET m == Head(inbox) IN owing' = owing \ ({m.message} \X local[m.for])
    /\ UNCHANGED <<local, remote, telling, sent, adrift>>

BusNext ==
    \/ Dispatch
    \/ \E t \in Published : PublishTo(t)
    \/ \E h \in Handlers : SubscribeTo(h) \/ UnsubscribeFrom(h) \/ Tells(h) \/ TellRaises(h)

BusSpec == BusInit /\ [][BusNext]_busVars

-----------------------------------------------------------------------------
(* Redis knows of a topic exactly when somebody here listens to it, and a    *)
(* message published while a handler is subscribed is on its way to it,      *)
(* unless the last calls to tell Redis of the topic raised or crossed: an    *)
(* UNSUBSCRIBE may then have the last word, or the SUBSCRIBE be missing, and *)
(* the handlers of the topic hear nothing. Silent calls do not mend that; a  *)
(* call that tells Redis, alone and without an error, does, whatever went    *)
(* wrong before it.                                                          *)
SubscribedIsHeard ==
    /\ \A t \in BusTopics : InTouch(t) => (t \in remote <=> local[t] # {})
    /\ \A o \in owing :
         \E i \in 1..Len(inbox) : inbox[i] = [message |-> o[1], for |-> TopicOf[o[2]]]
=============================================================================
